---- MODULE Spec2Model ----
(***************************************************************************)
(* Model of the Anthropic <-> OpenAI translating proxy.                    *)
(*                                                                         *)
(* One behaviour is one inbound POST /v1/messages request: the route       *)
(* either hands the upstream chunk generator to handle_streaming (the SSE  *)
(* state machine of src/conversion/response_converter.py) or converts one  *)
(* upstream completion with convert_openai_to_anthropic.                   *)
(*                                                                         *)
(* Text is modelled as a sequence of characters, Python None as the        *)
(* integer None (upstream tool-call indexes and token counts are >= 0).    *)
(***************************************************************************)
EXTENDS Integers, Sequences, FiniteSets, TLC

\* ------------------------------------------------------------------ bounds
\* Number of upstream chunks the generator yields at most in one stream.
MaxChunks == 3

\* ------------------------------------------------------------- input sets
\* Python None for integer-valued slots (tool_index, usage).
None == -1

\* finish_reason values of an upstream choice; "" stands for None/absent,
\* "content_filter" for every value the mapping does not name.
FinishReasons == {"stop", "length", "tool_calls", "content_filter"}

NoFinish == ""

\* delta.content values: texts of the upstream deltas.
Texts == {<<"a">>}

\* function.arguments fragments of a tool-call delta ("" = no arguments).
ArgFragments == {<<>>, <<"x">>}

\* upstream tool_call.index values.
UpstreamIndexes == {0, 1}

\* completion_tokens values carried by a usage-bearing chunk.
UsageValues == {1, 2}

\* tool_call.id and function.name of a delta; "" = the delta carries none.
ToolIds == {"t1"}

ToolNames == {"calculator"}

ToolCallDelta(index, id, name, arguments) ==
    [index |-> index, id |-> id, name |-> name, arguments |-> arguments]

ToolCallDeltas ==
    [index : UpstreamIndexes, id : ToolIds, name : ToolNames, arguments : ArgFragments]

\* delta.tool_calls lists: absent, one entry, or two entries of one delta
\* (two parallel calls opened at once; one call opened and extended).
ToolCallLists ==
    {<<>>}
    \cup {<<tc>> : tc \in ToolCallDeltas}
    \cup {<< ToolCallDelta(0, "t1", "calculator", <<>>),
             ToolCallDelta(1, "t1", "calculator", <<>>) >>,
          << ToolCallDelta(0, "t1", "calculator", <<>>),
             ToolCallDelta(0, "t1", "calculator", <<"x">>) >>}

\* An upstream chunk.
\*   usage        : None or completion_tokens
\*   choices      : "empty" (no choices / []), "null" (choices is None, so
\*                  len() raises), "one" (choices[0] is read)
\*   content_type : "none" (delta.content is None), "str", "list" (a
\*                  non-string content, so accumulated_text += raises)
Chunks ==
    [usage : {None} \cup UsageValues, choices : {"empty", "null"},
     content_type : {"none"}, content : {<<>>}, tool_calls : {<<>>},
     finish_reason : {NoFinish}]
    \cup
    [usage : {None} \cup UsageValues, choices : {"one"},
     content_type : {"none"}, content : {<<>>}, tool_calls : ToolCallLists,
     finish_reason : FinishReasons \cup {NoFinish}]
    \cup
    [usage : {None} \cup UsageValues, choices : {"one"},
     content_type : {"str"}, content : Texts \cup {<<>>}, tool_calls : ToolCallLists,
     finish_reason : FinishReasons \cup {NoFinish}]
    \cup
    [usage : {None} \cup UsageValues, choices : {"one"},
     content_type : {"list"}, content : {<<>>}, tool_calls : ToolCallLists,
     finish_reason : FinishReasons \cup {NoFinish}]

\* A chunk with one choice.
Chunk(content_type, content, tool_calls, reason) ==
    [usage |-> None, choices |-> "one", content_type |-> content_type,
     content |-> content, tool_calls |-> tool_calls, finish_reason |-> reason]

\* The upstream stream of the streaming tool-call scenario: a text delta,
\* the delta that names the tool call, two argument fragments, the finish.
S4Upstream ==
    << Chunk("str", <<"Sure. ">>, <<>>, NoFinish),
       Chunk("none", <<>>, <<ToolCallDelta(0, "t1", "calculator", <<>>)>>, NoFinish),
       Chunk("none", <<>>, <<ToolCallDelta(0, "", "", <<"{\"expr">>)>>, NoFinish),
       Chunk("none", <<>>, <<ToolCallDelta(0, "", "", <<"ession\":\"2+2\"}">>)>>, NoFinish),
       Chunk("none", <<>>, <<>>, "tool_calls") >>

\* Number of upstream chunks of one stream built from the scenario's chunks.
MaxScenarioChunks == 5

ScenarioChunks == {S4Upstream[i] : i \in DOMAIN S4Upstream}

\* function.arguments of a completed tool call: a JSON object, a string that
\* is not JSON, or JSON that is not an object (e.g. "[1]").
ArgumentKinds == {"object", "invalid", "array"}

CompletionToolCalls ==
    {<<>>}
    \cup {<<[arguments |-> k]>> : k \in ArgumentKinds}
    \cup {<<[arguments |-> k1], [arguments |-> k2]>> : k1, k2 \in ArgumentKinds}

\* What the translator is handed as the upstream response:
\*   "completion" : a completion with choices and usage
\*   "opaque"     : an object with no choices, usage, dict(), model_dump()
\*                  or __dict__ (a bare object())
\*   "broken"     : a dict whose choices[0] is null, so reading it raises
Shapes == {"completion", "opaque", "broken"}

\* An upstream response that is no completion.
Uninterpretable(shape) ==
    [shape |-> shape, content_type |-> "none", content |-> <<>>, tool_calls |-> <<>>,
     finish_reason |-> "absent", completion_tokens |-> 0]

\* An upstream completion (choices[0] and usage).  finish_reason "absent":
\* the key is missing from the choice; NoFinish: it is null.
Completions ==
    [shape : {"completion"}, content_type : {"none"}, content : {<<>>},
     tool_calls : CompletionToolCalls,
     finish_reason : FinishReasons \cup {NoFinish, "absent"},
     completion_tokens : UsageValues]
    \cup
    [shape : {"completion"}, content_type : {"str"}, content : Texts \cup {<<>>},
     tool_calls : CompletionToolCalls,
     finish_reason : FinishReasons \cup {NoFinish, "absent"},
     completion_tokens : UsageValues]
    \cup
    {Uninterpretable(shape) : shape \in Shapes \ {"completion"}}

\* ---------------------------------------------------------- the request
\* Python None / JSON null in a string-valued slot.
Null == "null"

\* PREFERRED_PROVIDER values the configuration accepts.
Providers == {"openai", "nvidia", "anthropic"}

\* A model name is the sequence of its parts, so that prefixes and the
\* words haiku / sonnet can be looked for.
BIG_MODEL == <<"gpt-4o">>

SMALL_MODEL == <<"gpt-4o-mini">>

\* Model names a client sends.
ClientModels ==
    { <<"claude-", "3-", "sonnet", "-20240229">>,
      <<"claude-", "3-", "opus", "-20240229">>,
      <<"anthropic/", "claude-", "3-", "haiku", "-20240307">>,
      <<"anthropic/", "claude-", "3-", "opus", "-20240229">>,
      <<"Claude-", "3-", "Haiku">>,
      <<"gpt-4o">> }

startswith(v, prefix) == v # <<>> /\ v[1] = prefix

contains(v, word) == \E i \in DOMAIN v : v[i] = word

\* str.lower() of a model name, part by part.
lower(v) ==
    [i \in DOMAIN v |-> CASE v[i] = "Haiku" -> "haiku"
                          [] v[i] = "Sonnet" -> "sonnet"
                          [] v[i] = "Claude-" -> "claude-"
                          [] OTHER -> v[i]]

\* The field validator of MessagesRequest.model.
validate_model(v, preferred_provider) ==
    IF preferred_provider = "nvidia"
    THEN IF contains(lower(v), "haiku") THEN <<"nvidia_nim/">> \o SMALL_MODEL
         ELSE IF contains(lower(v), "sonnet") THEN <<"nvidia_nim/">> \o BIG_MODEL
         ELSE IF ~startswith(v, "nvidia_nim/") THEN <<"nvidia_nim/">> \o v
         ELSE v
    ELSE IF preferred_provider = "openai"
    THEN LET v1 == IF startswith(v, "anthropic/") THEN Tail(v) ELSE v
         IN IF contains(lower(v1), "haiku") THEN <<"openai/">> \o SMALL_MODEL
            ELSE IF contains(lower(v1), "sonnet") THEN <<"openai/">> \o BIG_MODEL
            ELSE IF ~startswith(v1, "openai/") THEN <<"openai/">> \o v1
            ELSE v1
    ELSE IF ~startswith(v, "anthropic/") THEN <<"anthropic/">> \o v
         ELSE v

\* Extract clean model name.
clean_model(model) ==
    IF startswith(model, "anthropic/") THEN Tail(model)
    ELSE IF startswith(model, "openai/") THEN Tail(model)
    ELSE model

\* Check if model is a Claude model.
IsClaudeModel(request) == startswith(clean_model(request.model), "claude-")

\* config.max_tokens_limit (default of MAX_TOKENS_LIMIT).
MAX_TOKENS_LIMIT == 16384

MaxTokensValues == {1, MAX_TOKENS_LIMIT, MAX_TOKENS_LIMIT + 1}

\* Whitespace parts of a text, which str.strip() removes at both ends.
Whitespace == {"\n", "\n\n", " "}

RECURSIVE lstrip(_)
lstrip(text) ==
    IF text # <<>> /\ Head(text) \in Whitespace THEN lstrip(Tail(text)) ELSE text

RECURSIVE rstrip(_)
rstrip(text) ==
    IF text # <<>> /\ text[Len(text)] \in Whitespace
    THEN rstrip(SubSeq(text, 1, Len(text) - 1))
    ELSE text

strip(text) == lstrip(rstrip(text))

\* --- system prompt
SystemText(text) == [type |-> "text", text |-> text]

NoSystem == [kind |-> "none", text |-> <<>>, blocks |-> <<>>]

SystemString(text) == [kind |-> "str", text |-> text, blocks |-> <<>>]

SystemList(blocks) == [kind |-> "list", text |-> <<>>, blocks |-> blocks]

Systems ==
    { NoSystem,
      SystemString(<<>>),
      SystemString(<<"Be brief.">>),
      SystemList(<<>>),
      SystemList(<<SystemText(<<>>)>>),
      SystemList(<<SystemText(<<"Be brief.">>), SystemText(<<"Be kind.">>)>>) }

\* --- messages
\* A message of either side: string content (kind "str") or a block list.
Message(role, kind, text, blocks) ==
    [role |-> role, kind |-> kind, text |-> text, blocks |-> blocks]

\* Content of a tool_result block: null, a string, a list of text items.
ResultContent(kind, text, items) == [kind |-> kind, text |-> text, items |-> items]

NoContent == ResultContent("none", <<>>, <<>>)

\* A content block; every block carries every field.
Block(type, text, tool_use_id, content) ==
    [type |-> type, text |-> text, tool_use_id |-> tool_use_id, content |-> content]

TextContentBlock(text) == Block("text", text, "", NoContent)

ToolUseContentBlock == Block("tool_use", <<>>, "t1", NoContent)

ToolResultBlock(tool_use_id, content) == Block("tool_result", <<>>, tool_use_id, content)

\* Block lists of a message: text; one tool_result whose output ends in a
\* newline; two tool_results; text and tool_result; a tool_use.
BlockLists ==
    { <<TextContentBlock(<<"Hello">>)>>,
      <<ToolResultBlock("t1", ResultContent("str", <<"4", "\n">>, <<>>))>>,
      <<ToolResultBlock("t1", ResultContent("str", <<"4">>, <<>>)),
        ToolResultBlock("t2", NoContent)>>,
      <<ToolResultBlock("t1", ResultContent("list", <<>>, <<<<"4">>, <<"5">>>>)),
        ToolResultBlock("t2", ResultContent("str", <<"ok">>, <<>>))>>,
      <<TextContentBlock(<<"Here:">>),
        ToolResultBlock("t1", ResultContent("str", <<"4">>, <<>>))>>,
      <<ToolUseContentBlock>> }

Roles == {"user", "assistant"}

Messages ==
    {Message(role, "str", <<"Hello">>, <<>>) : role \in Roles}
    \cup {Message(role, "blocks", <<>>, blocks) : role \in Roles, blocks \in BlockLists}

\* Message lists of a request: one message, or a user message and a second.
MessageLists ==
    {<<m>> : m \in Messages}
    \cup {<<m1, m2>> : m1 \in {m \in Messages : m.role = "user"}, m2 \in Messages}

\* --- tools
\* Tool.dict(): the description key is always there, null when not given.
Tool(name, description, input_schema) ==
    [name |-> name, description |-> description, input_schema |-> input_schema]

ToolLists ==
    { <<>>,
      <<Tool("calculator", "Evaluate", "schema1")>>,
      <<Tool("search", Null, "schema2"), Tool("calculator", "Evaluate", "schema1")>> }

\* --- tool_choice
\* A tool_choice dict: the keys it has and their values; present = FALSE is
\* None. An empty dict has no keys.
ToolChoice(present, keys, type, name) ==
    [present |-> present, keys |-> keys, type |-> type, name |-> name]

NoToolChoice == ToolChoice(FALSE, {}, "", "")

ToolChoices ==
    { NoToolChoice,
      ToolChoice(TRUE, {}, "", ""),
      ToolChoice(TRUE, {"type"}, "auto", ""),
      ToolChoice(TRUE, {"type"}, "any", ""),
      ToolChoice(TRUE, {"type", "name"}, "tool", "calculator"),
      ToolChoice(TRUE, {"type"}, "tool", ""),
      ToolChoice(TRUE, {"type"}, "none", "") }

\* --- the translator
\* convert_system_prompt: the system message, or no message.
SystemTextOf(blocks) ==
    IF blocks = <<>> THEN <<>>
    ELSE LET F[i \in 0..Len(blocks)] ==
                 IF i = 0 THEN <<>> ELSE F[i - 1] \o blocks[i].text \o <<"\n\n">>
         IN F[Len(blocks)]

convert_system_prompt(system_prompt) ==
    IF system_prompt.kind = "none" THEN <<>>
    ELSE IF system_prompt.kind = "str"
    THEN IF system_prompt.text = <<>> THEN <<>>
         ELSE <<Message("system", "str", system_prompt.text, <<>>)>>
    ELSE IF system_prompt.blocks = <<>> THEN <<>>
    ELSE LET system_text == SystemTextOf(system_prompt.blocks)
         IN IF system_text # <<>>
            THEN <<Message("system", "str", strip(system_text), <<>>)>>
            ELSE <<>>

\* parse_tool_result_content: the string for one tool_result content.
JoinItems(items) ==
    LET F[i \in 0..Len(items)] ==
            IF i = 0 THEN <<>> ELSE F[i - 1] \o items[i] \o <<"\n">>
    IN F[Len(items)]

parse_tool_result_content(content) ==
    IF content.kind = "none" THEN <<"No content provided">>
    ELSE IF content.kind = "str" THEN content.text
    ELSE strip(JoinItems(content.items))

\* Text of one block in the flattened user message.
FlattenBlock(block) ==
    IF block.type = "text" THEN block.text \o <<"\n">>
    ELSE IF block.type = "tool_result"
    THEN <<"Tool result for ", block.tool_use_id, ":", "\n">>
         \o parse_tool_result_content(block.content) \o <<"\n">>
    ELSE <<>>

FlattenBlocks(blocks) ==
    LET F[i \in 0..Len(blocks)] ==
            IF i = 0 THEN <<>> ELSE F[i - 1] \o FlattenBlock(blocks[i])
    IN F[Len(blocks)]

\* A block in block form; the content of a tool_result becomes one text item.
ProcessBlock(block) ==
    IF block.type = "tool_result"
    THEN [block EXCEPT !.content =
             ResultContent("list", <<>>, <<parse_tool_result_content(block.content)>>)]
    ELSE block

has_tool_result(blocks) == \E i \in DOMAIN blocks : blocks[i].type = "tool_result"

\* Mutation: tool results are left in block form.
convert_message_NoFlatten(msg) ==
    IF msg.kind = "str" THEN msg
    ELSE Message(msg.role, "blocks", <<>>,
                 [i \in DOMAIN msg.blocks |-> ProcessBlock(msg.blocks[i])])

\* One iteration of convert_messages.
convert_message(msg) ==
    IF msg.kind = "str" THEN Message(msg.role, "str", msg.text, <<>>)
    ELSE IF msg.role = "user" /\ has_tool_result(msg.blocks)
    THEN Message("user", "str", strip(FlattenBlocks(msg.blocks)), <<>>)
    ELSE Message(msg.role, "blocks", <<>>,
                 [i \in DOMAIN msg.blocks |-> ProcessBlock(msg.blocks[i])])

convert_messages(messages) == [i \in DOMAIN messages |-> convert_message(messages[i])]

\* dict.get(key, default)
Get(dict, key, default) == IF key \in DOMAIN dict THEN dict[key] ELSE default

\* convert_tools: None (here <<>>) when there are no tools.
convert_tools(tools) ==
    [i \in DOMAIN tools |->
        [type |-> "function",
         name |-> tools[i].name,
         description |-> Get(tools[i], "description", ""),
         parameters |-> tools[i].input_schema]]

\* A converted tool_choice: omitted, a string, or a function choice.
Converted(kind, value, name) == [kind |-> kind, value |-> value, name |-> name]

Omitted == Converted("omitted", "", "")

convert_tool_choice(tool_choice) ==
    IF ~tool_choice.present \/ tool_choice.keys = {} THEN Omitted
    ELSE LET choice_type == IF "type" \in tool_choice.keys THEN tool_choice.type ELSE Null
         IN IF choice_type = "auto" THEN Converted("str", "auto", "")
            ELSE IF choice_type = "any" THEN Converted("str", "any", "")
            ELSE IF choice_type = "tool" /\ "name" \in tool_choice.keys
            THEN Converted("function", "", tool_choice.name)
            ELSE Converted("str", "auto", "")

\* Handle max_tokens - cap for OpenAI models.
cap_max_tokens(anthropic_request) ==
    IF startswith(anthropic_request.model, "openai/")
    THEN IF anthropic_request.max_tokens < MAX_TOKENS_LIMIT
         THEN anthropic_request.max_tokens
         ELSE MAX_TOKENS_LIMIT
    ELSE anthropic_request.max_tokens

convert_anthropic_to_litellm(anthropic_request) ==
    [model |-> anthropic_request.model,
     messages |-> convert_system_prompt(anthropic_request.system)
                  \o convert_messages(anthropic_request.messages),
     max_tokens |-> cap_max_tokens(anthropic_request),
     tools |-> convert_tools(anthropic_request.tools),
     tool_choice |-> convert_tool_choice(anthropic_request.tool_choice)]

\* The body of a POST /v1/messages.
ClientRequest(model, max_tokens, system, messages, tools, tool_choice) ==
    [model |-> model, max_tokens |-> max_tokens, system |-> system,
     messages |-> messages, tools |-> tools, tool_choice |-> tool_choice]

\* Requests a client sends: every model and max_tokens with a plain message;
\* every system prompt with every message list; every tool list with every
\* tool_choice.
ClientRequests ==
    {ClientRequest(model, max_tokens, NoSystem,
                   <<Message("user", "str", <<"Hello">>, <<>>)>>, <<>>, NoToolChoice) :
         model \in ClientModels, max_tokens \in MaxTokensValues}
    \cup
    {ClientRequest(<<"claude-", "3-", "opus", "-20240229">>, 1, system, messages,
                   <<>>, NoToolChoice) :
         system \in Systems, messages \in MessageLists}
    \cup
    {ClientRequest(<<"claude-", "3-", "opus", "-20240229">>, 1, NoSystem,
                   <<Message("user", "str", <<"Hello">>, <<>>)>>, tools, tool_choice) :
         tools \in ToolLists, tool_choice \in ToolChoices}

\* MessagesRequest(**body): the request object after validation.
MessagesRequest(body, preferred_provider) ==
    [original_model |-> body.model,
     model |-> validate_model(body.model, preferred_provider),
     max_tokens |-> body.max_tokens, system |-> body.system,
     messages |-> body.messages, tools |-> body.tools,
     tool_choice |-> body.tool_choice]

\* No request received (yet).
NoRequest ==
    [original_model |-> <<>>, model |-> <<>>, max_tokens |-> 0, system |-> NoSystem,
     messages |-> <<>>, tools |-> <<>>, tool_choice |-> NoToolChoice]

NoUpstreamRequest ==
    [model |-> <<>>, messages |-> <<>>, max_tokens |-> 0, tools |-> <<>>,
     tool_choice |-> Omitted]

\* ------------------------------------------------------ upstream client
\* Chunks one streaming call yields at most.
MaxItems == 2

\* The calls of create_chat_completion / create_chat_completion_stream that
\* may be in flight together.
Calls == {1, 2}

\* Request ids; "" is the call made without a request_id.
RequestIds == {"req-1"}

NoRequestId == ""

\* Outcomes of the upstream task: a completion, or one of the exceptions
\* the client distinguishes.
UpstreamErrors ==
    {"AuthenticationError", "RateLimitError", "BadRequestError", "APIError",
     "Exception"}

\* One call: its coroutine or generator, the asyncio.Event it created, the
\* upstream task, the items yielded to the consumer, the way it ended.
\* cancelled_at is history: the number of items yielded at the moment
\* cancel_request returned True for the request_id of the call in flight.
NoCall ==
    [kind |-> "none", request_id |-> NoRequestId, pc |-> "idle",
     cancel_event |-> FALSE, upstream |-> "pending", aborted |-> FALSE,
     yielded |-> <<>>, outcome |-> "", cancelled_at |-> None]

\* Parts an upstream error message is made of: the phrases the classifier
\* looks for, in the case the upstream may write them, and other words.
MessageParts ==
    {"unsupported_country_region_territory", "invalid_api_key", "Unauthorized",
     "rate_limit", "Quota", "model", "not found", "does not exist", "billing",
     "context_length_exceeded", "timeout"}

\* Parts of one error message at most.
MaxParts == 3

ErrorMessages == UNION {[1..n -> MessageParts] : n \in 0..MaxParts}

\* str.lower() of an error message, part by part.
lower_message(error_detail) ==
    [i \in DOMAIN error_detail |->
        CASE error_detail[i] = "Unauthorized" -> "unauthorized"
          [] error_detail[i] = "Quota" -> "quota"
          [] OTHER -> error_detail[i]]

classify_openai_error_NoLower(error_detail) ==
    LET error_str == error_detail
    IN IF \/ contains(error_str, "unsupported_country_region_territory")
          \/ contains(error_str, "country, region, or territory not supported")
       THEN <<"OpenAI API is not available in your region.">>
       ELSE IF contains(error_str, "invalid_api_key") \/ contains(error_str, "unauthorized")
       THEN <<"Invalid API key.">>
       ELSE IF contains(error_str, "rate_limit") \/ contains(error_str, "quota")
       THEN <<"Rate limit exceeded.">>
       ELSE IF /\ contains(error_str, "model")
               /\ contains(error_str, "not found") \/ contains(error_str, "does not exist")
       THEN <<"Model not found.">>
       ELSE IF contains(error_str, "billing") \/ contains(error_str, "payment")
       THEN <<"Billing issue.">>
       ELSE IF \/ contains(error_str, "context_length_exceeded")
               \/ contains(error_str, "maximum context length")
       THEN <<"Context length exceeded.">>
       ELSE error_detail

\* Provide specific error guidance for common OpenAI API issues.
classify_openai_error(error_detail) ==
    LET error_str == lower_message(error_detail)
    IN IF \/ contains(error_str, "unsupported_country_region_territory")
          \/ contains(error_str, "country, region, or territory not supported")
       THEN <<"OpenAI API is not available in your region.">>
       ELSE IF contains(error_str, "invalid_api_key") \/ contains(error_str, "unauthorized")
       THEN <<"Invalid API key.">>
       ELSE IF contains(error_str, "rate_limit") \/ contains(error_str, "quota")
       THEN <<"Rate limit exceeded.">>
       ELSE IF /\ contains(error_str, "model")
               /\ contains(error_str, "not found") \/ contains(error_str, "does not exist")
       THEN <<"Model not found.">>
       ELSE IF contains(error_str, "billing") \/ contains(error_str, "payment")
       THEN <<"Billing issue.">>
       ELSE IF \/ contains(error_str, "context_length_exceeded")
               \/ contains(error_str, "maximum context length")
       THEN <<"Context length exceeded.">>
       ELSE error_detail

\* Nothing classified (yet).
NoClassified == [done |-> FALSE, error_detail |-> <<>>, detail |-> <<>>]

\* ---------------------------------------------------------------- services
\* Seconds the clock runs.
MaxTime == 3

\* Failures one breaker records at most.
MaxFailures == 4

\* Calls of execute that may be in flight together.
Executions == {1, 2}

\* Values of failure_threshold and recovery_timeout a breaker is built with.
FailureThresholds == {1, 2}

RecoveryTimeouts == {0, 1}

\* CircuitState
CLOSED == "closed"

OPEN == "open"

HALF_OPEN == "half_open"

\* No breaker constructed (yet).  failed_calls is history: the failed calls
\* since the breaker was created or last recovered from HALF_OPEN.
NoBreaker ==
    [state |-> "none", failure_threshold |-> 0, recovery_timeout |-> 0,
     failure_count |-> 0, last_failure_time |-> 0, failed_calls |-> 0]

\* CircuitBreaker(name, failure_threshold, recovery_timeout)
CircuitBreaker(failure_threshold, recovery_timeout) ==
    [state |-> CLOSED, failure_threshold |-> failure_threshold,
     recovery_timeout |-> recovery_timeout,
     failure_count |-> 0, last_failure_time |-> 0, failed_calls |-> 0]

\* One call of execute: awaiting the protected function or not; the state
\* in which the function was invoked; how the last call ended.
NoExecution == [pc |-> "idle", invoked_in |-> "", result |-> ""]

\* Mutation: the breaker leaves OPEN as soon as recovery_timeout is reached.
check_state_transition_AtTimeout(b, t) ==
    IF b.state = OPEN /\ t - b.last_failure_time >= b.recovery_timeout
    THEN [b EXCEPT !.state = HALF_OPEN]
    ELSE b

\* Mutation: after the recovery timeout the breaker closes at once.
check_state_transition_ToClosed(b, t) ==
    IF b.state = OPEN /\ t - b.last_failure_time > b.recovery_timeout
    THEN [b EXCEPT !.state = CLOSED]
    ELSE b

\* Check if the circuit breaker should change state based on timing.
check_state_transition(b, t) ==
    IF b.state = OPEN /\ t - b.last_failure_time > b.recovery_timeout
    THEN [b EXCEPT !.state = HALF_OPEN]
    ELSE b

\* Mutation: the circuit opens one failure late.
handle_failure_OpensLate(b, t) ==
    LET b1 == [b EXCEPT !.failure_count = @ + 1, !.last_failure_time = t,
                        !.failed_calls = @ + 1]
    IN IF b1.state = HALF_OPEN THEN [b1 EXCEPT !.state = OPEN]
       ELSE IF b1.state = CLOSED /\ b1.failure_count > b1.failure_threshold
       THEN [b1 EXCEPT !.state = OPEN]
       ELSE b1

\* Handle a failure by incrementing counters and potentially opening the
\* circuit.
handle_failure(b, t) ==
    LET b1 == [b EXCEPT !.failure_count = @ + 1, !.last_failure_time = t,
                        !.failed_calls = @ + 1]
    IN IF b1.state = HALF_OPEN THEN [b1 EXCEPT !.state = OPEN]
       ELSE IF b1.state = CLOSED /\ b1.failure_count >= b1.failure_threshold
       THEN [b1 EXCEPT !.state = OPEN]
       ELSE b1

\* Mutation: recovering does not reset failure_count.
handle_success_KeepsCount(b) ==
    IF b.state = HALF_OPEN
    THEN [b EXCEPT !.state = CLOSED, !.failed_calls = 0]
    ELSE b

\* Success, reset failure count if in half-open state.
handle_success(b) ==
    IF b.state = HALF_OPEN
    THEN [b EXCEPT !.state = CLOSED, !.failure_count = 0, !.failed_calls = 0]
    ELSE b

\* --- response cache
\* Requests given to the cache: the body and the two fields the key ignores.
Bodies == {"b1", "b2", "b3"}

CacheRequests == [body : Bodies, stream : BOOLEAN, metadata : {Null, "m"}]

Responses == {"r1", "r2"}

TtlSeconds == {1, 2}

MaxSizes == {1, 2}

\* sha256 of the request serialised without `metadata` and `stream`.
generate_key(request_data) == request_data.body

\* No cache constructed (yet).  entries is the dict in iteration order;
\* evicted is history: a set has removed the oldest entry.
NoCache ==
    [created |-> FALSE, ttl_seconds |-> 0, max_size |-> 0, entries |-> <<>>,
     evicted |-> FALSE]

\* ResponseCache(ttl_seconds, max_size)
ResponseCache(ttl_seconds, max_size) ==
    [created |-> TRUE, ttl_seconds |-> ttl_seconds, max_size |-> max_size,
     entries |-> <<>>, evicted |-> FALSE]

NoGet == [key |-> Null, result |-> Null, expired |-> FALSE]

\* Position of key in the dict, 0 when absent.
IndexOf(entries, key) ==
    IF \E i \in DOMAIN entries : entries[i].key = key
    THEN CHOOSE i \in DOMAIN entries : entries[i].key = key
    ELSE 0

\* del self.cache[key]
Delete(entries, i) == SubSeq(entries, 1, i - 1) \o SubSeq(entries, i + 1, Len(entries))

\* min(self.cache.keys(), key=timestamp): the first key, in dict order,
\* with the smallest timestamp.
Oldest(entries) ==
    CHOOSE i \in DOMAIN entries :
        /\ \A j \in DOMAIN entries : entries[i].timestamp <= entries[j].timestamp
        /\ \A j \in 1..(i - 1) : entries[j].timestamp > entries[i].timestamp

\* Mutation: an expired entry is still returned at the very second it expires.
cache_get_AtTtl(c, request_data, t) ==
    LET key == generate_key(request_data)
        i == IndexOf(c.entries, key)
    IN IF i = 0 THEN [cache |-> c, result |-> Null, expired |-> FALSE]
       ELSE IF t - c.entries[i].timestamp <= c.ttl_seconds
       THEN [cache |-> c, result |-> c.entries[i].response, expired |-> FALSE]
       ELSE [cache |-> [c EXCEPT !.entries = Delete(@, i)], result |-> Null,
             expired |-> TRUE]

\* Retrieve a cached response if available and not expired.
cache_get(c, request_data, t) ==
    LET key == generate_key(request_data)
        i == IndexOf(c.entries, key)
    IN IF i = 0 THEN [cache |-> c, result |-> Null, expired |-> FALSE]
       ELSE IF t - c.entries[i].timestamp < c.ttl_seconds
       THEN [cache |-> c, result |-> c.entries[i].response, expired |-> FALSE]
       ELSE [cache |-> [c EXCEPT !.entries = Delete(@, i)], result |-> Null,
             expired |-> TRUE]

\* self.cache[key] = {...}: an existing key keeps its place in the dict.
Store(entries, key, response_data, t) ==
    LET i == IndexOf(entries, key)
        entry == [key |-> key, response |-> response_data, timestamp |-> t]
    IN IF i = 0 THEN Append(entries, entry) ELSE [entries EXCEPT ![i] = entry]

\* Mutation: the oldest entry is evicted only when the cache is over its size.
cache_set_EvictsLate(c, request_data, response_data, t) ==
    LET key == generate_key(request_data)
        full == Len(c.entries) > c.max_size
        kept == IF full THEN Delete(c.entries, Oldest(c.entries)) ELSE c.entries
    IN [c EXCEPT !.entries = Store(kept, key, response_data, t),
                 !.evicted = @ \/ full]

\* Cache a response.
cache_set(c, request_data, response_data, t) ==
    LET key == generate_key(request_data)
        full == Len(c.entries) >= c.max_size
        kept == IF full THEN Delete(c.entries, Oldest(c.entries)) ELSE c.entries
    IN [c EXCEPT !.entries = Store(kept, key, response_data, t),
                 !.evicted = @ \/ full]

\* ------------------------------------------------------------------- route
\* The shared secret a deployment may configure.
Secret == "secret"

ApiKeyHeaders == {Null, Secret, "wrong"}

AuthorizationHeaders == {Null, "Bearer secret", "Bearer wrong"}

\* Configuration and headers of one POST /v1/messages; provider_key: the
\* key of the preferred provider is configured.
Http(preferred_provider, anthropic_api_key, provider_key, x_api_key, authorization) ==
    [preferred_provider |-> preferred_provider,
     anthropic_api_key |-> anthropic_api_key, provider_key |-> provider_key,
     x_api_key |-> x_api_key, authorization |-> authorization, status |-> 0]

NoHttp == Http(Null, Null, FALSE, Null, Null)

\* ------------------------------------------------------------------ state
VARIABLES
    pc,                   \* "init", "loop" (inside async for), "done";
                          \* "received", "translated" for the request
    request,              \* the validated MessagesRequest
    litellm_request,      \* the request forwarded upstream
    out,                  \* frames yielded so far, in order
    consumed,             \* chunks pulled from response_generator so far
    tool_index,           \* upstream index of the tool call last mapped
    anthropic_tool_index, \* block index of the tool block last opened
    accumulated_text,
    text_sent,
    text_block_closed,
    output_tokens,
    has_sent_stop_reason,
    last_tool_index,
    finish_reason,        \* finish_reason read from the chunk last processed
    opened_by,            \* history: the upstream index that opened block k
    log,                  \* messages passed to logger.error, in order
    scenario,             \* history: chunks of S4Upstream matched so far
    upstream_usage,       \* history: usage of the last usage-carrying chunk
                          \* of the upstream stream, read or not
    openai_response,      \* the upstream completion given to the translator
    response,             \* result of the non-streaming translator
    active_requests,      \* OpenAIClient.active_requests: request_id -> the
                          \* call whose asyncio.Event is stored (0 = no entry)
    calls,                \* the calls of the upstream client, one record each
    http,                 \* configuration and headers of the POST /v1/messages
    classified,           \* the error message last classified and the result
    upstream_text,        \* history: the text content of the chunks read up to
                          \* and including the first chunk with a tool call
    now,                  \* time.time()
    breaker,              \* the CircuitBreaker
    executions,           \* the calls of CircuitBreaker.execute, one record each
    cache,                \* the ResponseCache
    last_get              \* the last ResponseCache.get and what it returned

vars == <<pc, request, litellm_request, out, consumed, tool_index, anthropic_tool_index, accumulated_text,
          text_sent, text_block_closed, output_tokens, has_sent_stop_reason,
          last_tool_index, finish_reason, opened_by, log, scenario,
          upstream_usage, openai_response, response, active_requests, calls,
          http, classified, upstream_text, now, breaker, executions, cache,
          last_get>>

\* The state of the upstream client.
clientVars == <<active_requests, calls, classified, now, breaker, executions, cache, last_get>>

\* The state of the services: circuit breaker and response cache.
serviceVars == <<now, breaker, executions, cache, last_get>>

\* The state of the route and of the translators.
translatorVars ==
    <<pc, request, litellm_request, out, consumed, tool_index, anthropic_tool_index,
      accumulated_text, text_sent, text_block_closed, output_tokens,
      has_sent_stop_reason, last_tool_index, finish_reason, opened_by, log,
      scenario, upstream_usage, openai_response, response, http,
      upstream_text>>

\* ----------------------------------------------------------------- frames
\* One SSE frame.  Every frame carries every field so that frames compare.
Frame(type, index, block, text, stop_reason, tokens) ==
    [type |-> type, index |-> index, block |-> block, text |-> text,
     stop_reason |-> stop_reason, output_tokens |-> tokens,
     id |-> "", name |-> ""]

MessageStart == Frame("message_start", None, "", <<>>, "", 0)

Ping == Frame("ping", None, "", <<>>, "", 0)

TextBlockStart == Frame("content_block_start", 0, "text", <<>>, "", 0)

\* content_block_start of a tool_use block {id, name, input: {}}.
ToolBlockStart(i, tool_id, name) ==
    [Frame("content_block_start", i, "tool_use", <<>>, "", 0)
        EXCEPT !.id = tool_id, !.name = name]

TextDelta(text) == Frame("content_block_delta", 0, "text_delta", text, "", 0)

InputJsonDelta(i, partial_json) ==
    Frame("content_block_delta", i, "input_json_delta", partial_json, "", 0)

BlockStop(i) == Frame("content_block_stop", i, "", <<>>, "", 0)

MessageDelta(stop_reason, tokens) ==
    Frame("message_delta", None, "", <<>>, stop_reason, tokens)

MessageStop == Frame("message_stop", None, "", <<>>, "", 0)

Done == Frame("[DONE]", None, "", <<>>, "", 0)

\* ------------------------------------------------------- pure translators
\* Mutation: the "length" branch is missing.
convert_stop_reason_NoLength(reason) ==
    IF reason = "stop" THEN "end_turn"
    ELSE IF reason = "tool_calls" THEN "tool_use"
    ELSE "end_turn"

convert_stop_reason(reason) ==
    IF reason = "stop" THEN "end_turn"
    ELSE IF reason = "length" THEN "max_tokens"
    ELSE IF reason = "tool_calls" THEN "tool_use"
    ELSE "end_turn"

\* finish_reason as extract_response_data hands it on: a missing key
\* defaults to "stop", a null stays null.
extract_finish_reason(completion) ==
    IF completion.finish_reason = "absent" THEN "stop" ELSE completion.finish_reason

TextBlock(text) == [type |-> "text", text |-> text, input |-> ""]

ToolUseBlock(input) == [type |-> "tool_use", text |-> <<>>, input |-> input]

\* json.loads of the arguments string; a JSONDecodeError wraps it as {raw}.
parse_arguments(kind) ==
    IF kind = "object" THEN "object"
    ELSE IF kind = "array" THEN "array"
    ELSE "raw"

\* Text summary of one tool call for a non-Claude model.
ToolSummary(tc) == <<"Tool:", tc.arguments>>

RECURSIVE ToolSummaries(_)
ToolSummaries(tcs) ==
    IF tcs = <<>> THEN <<>> ELSE ToolSummary(Head(tcs)) \o ToolSummaries(Tail(tcs))

convert_tool_calls_to_content(tool_calls, is_claude_model) ==
    IF tool_calls = <<>> THEN <<>>
    ELSE IF is_claude_model
    THEN [i \in 1..Len(tool_calls) |-> ToolUseBlock(parse_arguments(tool_calls[i].arguments))]
    ELSE <<TextBlock(<<"Tool usage:">> \o ToolSummaries(tool_calls))>>

\* Content blocks of the response before the empty-content fallback.
build_content(completion, is_claude_model) ==
    LET text == IF completion.content_type = "str" /\ completion.content # <<>>
                THEN <<TextBlock(completion.content)>>
                ELSE <<>>
        tool_content == convert_tool_calls_to_content(completion.tool_calls, is_claude_model)
    IN IF tool_content = <<>> THEN text
       ELSE IF is_claude_model THEN text \o tool_content
       ELSE IF text # <<>>
       THEN <<TextBlock(text[1].text \o tool_content[1].text)>>
       ELSE tool_content

\* MessagesResponse(content=...) validates every block: the input of a
\* tool_use block must be a dict.
ValidContent(content) ==
    \A i \in 1..Len(content) :
        content[i].type = "tool_use" => content[i].input \in {"object", "raw"}

ErrorResponse ==
    [content |-> <<TextBlock(<<"Error converting response">>)>>,
     stop_reason |-> "end_turn", output_tokens |-> 0, failed |-> TRUE,
     model |-> <<>>]

\* extract_response_data: an object that offers nothing is read as
\* {choices: [{}], usage: {}}, i.e. empty text, no tool calls, no
\* finish_reason key, no token counts.
extract_response_data(completion) ==
    IF completion.shape = "opaque"
    THEN [completion EXCEPT !.content_type = "str", !.content = <<>>,
                            !.tool_calls = <<>>, !.finish_reason = "absent",
                            !.completion_tokens = 0]
    ELSE completion

\* Ensure we have at least one content block.
EnsureContent(content) == IF content = <<>> THEN <<TextBlock(<<>>)>> ELSE content

\* Mutation: an empty content list is returned as it is.
convert_openai_to_anthropic_NoFallback(completion, original_request) ==
    LET response_data == extract_response_data(completion)
        content == build_content(response_data, IsClaudeModel(original_request))
        stop_reason == convert_stop_reason(extract_finish_reason(response_data))
    IN IF completion.shape = "broken" \/ ~ValidContent(content)
       THEN [ErrorResponse EXCEPT !.model = original_request.model]
       ELSE [content |-> content, stop_reason |-> stop_reason,
             output_tokens |-> response_data.completion_tokens, failed |-> FALSE,
             model |-> original_request.model]

convert_openai_to_anthropic(completion, original_request) ==
    LET response_data == extract_response_data(completion)
        content == EnsureContent(build_content(response_data,
                                               IsClaudeModel(original_request)))
        stop_reason == convert_stop_reason(extract_finish_reason(response_data))
    IN IF completion.shape = "broken" \/ ~ValidContent(content)
       THEN [ErrorResponse EXCEPT !.model = original_request.model]
       ELSE [content |-> content, stop_reason |-> stop_reason,
             output_tokens |-> response_data.completion_tokens, failed |-> FALSE,
             model |-> original_request.model]

\* ------------------------------------------------------------------- init
NoResponse ==
    [content |-> <<>>, stop_reason |-> "", output_tokens |-> 0, failed |-> FALSE,
     model |-> <<>>]

\* No completion received (yet).
NoCompletion ==
    [shape |-> "completion", content_type |-> "none", content |-> <<>>, tool_calls |-> <<>>,
     finish_reason |-> NoFinish, completion_tokens |-> 0]

Init ==
    /\ pc = "init"
    /\ request = NoRequest
    /\ litellm_request = NoUpstreamRequest
    /\ out = <<>>
    /\ consumed = 0
    /\ tool_index = None
    /\ anthropic_tool_index = None
    /\ accumulated_text = <<>>
    /\ text_sent = FALSE
    /\ text_block_closed = FALSE
    /\ output_tokens = 0
    /\ has_sent_stop_reason = FALSE
    /\ last_tool_index = 0
    /\ finish_reason = NoFinish
    /\ opened_by = <<>>
    /\ log = <<>>
    /\ scenario = 0
    /\ upstream_usage = None
    /\ openai_response = NoCompletion
    /\ response = NoResponse
    /\ active_requests = [id \in RequestIds |-> 0]
    /\ calls = [k \in Calls |-> NoCall]
    /\ http = NoHttp
    /\ classified = NoClassified
    /\ upstream_text = <<>>
    /\ now = 0
    /\ breaker = NoBreaker
    /\ executions = [k \in Executions |-> NoExecution]
    /\ cache = NoCache
    /\ last_get = NoGet

\* The locals of handle_streaming as one record, threaded through the steps
\* of one loop iteration.  returned = the iteration executed `return`.
Locals ==
    [out |-> out, tool_index |-> tool_index,
     anthropic_tool_index |-> anthropic_tool_index,
     accumulated_text |-> accumulated_text, text_sent |-> text_sent,
     text_block_closed |-> text_block_closed, output_tokens |-> output_tokens,
     has_sent_stop_reason |-> has_sent_stop_reason,
     last_tool_index |-> last_tool_index, finish_reason |-> finish_reason,
     opened_by |-> opened_by,
     log |-> log, returned |-> FALSE]

Emit(s, frame) == [s EXCEPT !.out = Append(@, frame)]

\* message_start, content_block_start{0,text}, ping; then the tracking
\* variables are initialised.
BeginStream ==
    /\ pc = "init"
    /\ UNCHANGED clientVars
    /\ UNCHANGED <<http, upstream_text>>
    /\ pc' = "loop"
    /\ out' = <<MessageStart, TextBlockStart, Ping>>
    /\ UNCHANGED <<consumed, tool_index, anthropic_tool_index, accumulated_text,
                   text_sent, text_block_closed, output_tokens,
                   has_sent_stop_reason, last_tool_index, finish_reason,
                   opened_by, log, scenario, upstream_usage, openai_response,
                   response, request, litellm_request>>

\* --- one iteration of `async for chunk in response_generator` ----------

EmitAll(s, frames) == [s EXCEPT !.out = @ \o frames]

\* Extract token counts (input_tokens is assigned but never read).
ExtractUsage(s, c) ==
    IF c.usage # None THEN [s EXCEPT !.output_tokens = c.usage] ELSE s

\* Mutation: every text delta is emitted, whatever the block state.
ProcessDeltaContent_AlwaysEmits(s, c) ==
    IF c.content_type = "str" /\ c.content # <<>>
    THEN Emit([s EXCEPT !.accumulated_text = @ \o c.content, !.text_sent = TRUE],
              TextDelta(c.content))
    ELSE s

\* Process delta text content.
ProcessDeltaContent(s, c) ==
    IF c.content_type = "str" /\ c.content # <<>>
    THEN LET s1 == [s EXCEPT !.accumulated_text = @ \o c.content]
         IN IF s1.tool_index = None /\ ~s1.text_block_closed
            THEN Emit([s1 EXCEPT !.text_sent = TRUE], TextDelta(c.content))
            ELSE s1
    ELSE s

\* Mutation: the text block is closed at the first tool only if text was sent.
CloseTextBlock_OnlyIfSent(s) ==
    IF s.tool_index # None THEN s
    ELSE IF s.text_sent /\ ~s.text_block_closed
    THEN Emit([s EXCEPT !.text_block_closed = TRUE], BlockStop(0))
    ELSE s

\* Mutation: a text block that never carried text is stopped at the first
\* tool without being marked closed.
CloseTextBlock_FlagNotSet(s) ==
    IF s.tool_index # None THEN s
    ELSE IF s.text_sent /\ ~s.text_block_closed
    THEN Emit([s EXCEPT !.text_block_closed = TRUE], BlockStop(0))
    ELSE IF s.accumulated_text # <<>> /\ ~s.text_sent /\ ~s.text_block_closed
    THEN EmitAll([s EXCEPT !.text_sent = TRUE, !.text_block_closed = TRUE],
                 <<TextDelta(s.accumulated_text), BlockStop(0)>>)
    ELSE IF ~s.text_block_closed
    THEN Emit(s, BlockStop(0))
    ELSE s

\* Close text block if starting tools.
CloseTextBlock(s) ==
    IF s.tool_index # None THEN s
    ELSE IF s.text_sent /\ ~s.text_block_closed
    THEN Emit([s EXCEPT !.text_block_closed = TRUE], BlockStop(0))
    ELSE IF s.accumulated_text # <<>> /\ ~s.text_sent /\ ~s.text_block_closed
    THEN EmitAll([s EXCEPT !.text_sent = TRUE, !.text_block_closed = TRUE],
                 <<TextDelta(s.accumulated_text), BlockStop(0)>>)
    ELSE IF ~s.text_block_closed
    THEN Emit([s EXCEPT !.text_block_closed = TRUE], BlockStop(0))
    ELSE s

\* Start new tool if index changed.
StartsNewTool(s, tc) == s.tool_index = None \/ tc.index # s.tool_index

\* Mutation: the upstream id is ignored, an id is always generated.
ToolId_AlwaysGenerated(tc) == "toolu_"

\* tool_id = getattr(tool_call, 'id', f"toolu_{uuid4().hex[:24]}")
ToolId(tc) == IF tc.id = "" THEN "toolu_" ELSE tc.id

\* Mutation: the block index is derived from the upstream index.
StartNewTool_ByUpstreamIndex(s, tc) ==
    IF StartsNewTool(s, tc)
    THEN LET a == tc.index + 1
         IN Emit([s EXCEPT !.tool_index = tc.index,
                           !.last_tool_index = a,
                           !.anthropic_tool_index = a,
                           !.opened_by = Append(@, tc.index)],
                 ToolBlockStart(a, ToolId(tc), tc.name))
    ELSE s

StartNewTool(s, tc) ==
    IF StartsNewTool(s, tc)
    THEN LET a == s.last_tool_index + 1
         IN Emit([s EXCEPT !.tool_index = tc.index,
                           !.last_tool_index = a,
                           !.anthropic_tool_index = a,
                           !.opened_by = Append(@, tc.index)],
                 ToolBlockStart(a, ToolId(tc), tc.name))
    ELSE s

\* Process tool arguments: a string fragment is only test-parsed by
\* json.loads and forwarded as it came.
ProcessToolArguments(s, tc) ==
    IF tc.arguments # <<>>
    THEN Emit(s, InputJsonDelta(s.anthropic_tool_index, tc.arguments))
    ELSE s

ProcessToolCall(s, tc) == ProcessToolArguments(StartNewTool(s, tc), tc)

RECURSIVE ProcessToolCalls(_, _)
ProcessToolCalls(s, tcs) ==
    IF tcs = <<>> THEN s
    ELSE ProcessToolCalls(ProcessToolCall(s, Head(tcs)), Tail(tcs))

ProcessDeltaToolCalls(s, c) ==
    IF c.tool_calls # <<>>
    THEN ProcessToolCalls(CloseTextBlock(s), c.tool_calls)
    ELSE s

\* Mutation: only the tool block opened last is closed.
CloseToolBlocks_LastOnly(s) ==
    IF s.tool_index # None
    THEN Emit(s, BlockStop(s.last_tool_index))
    ELSE s

CloseToolBlocks(s) ==
    IF s.tool_index # None
    THEN EmitAll(s, [i \in 1..s.last_tool_index |-> BlockStop(i)])
    ELSE s

\* Mutation: the accumulated text is flushed whether or not it was sent.
CloseTextAtFinish_AlwaysFlush(s) ==
    IF ~s.text_block_closed
    THEN Emit(IF s.accumulated_text # <<>>
              THEN Emit(s, TextDelta(s.accumulated_text))
              ELSE s,
              BlockStop(0))
    ELSE s

\* Close text block if still open (finish_reason path: with a flush).
CloseTextAtFinish(s) ==
    IF ~s.text_block_closed
    THEN Emit(IF s.accumulated_text # <<>> /\ ~s.text_sent
              THEN Emit(s, TextDelta(s.accumulated_text))
              ELSE s,
              BlockStop(0))
    ELSE s

\* Mutation: the finish_reason path falls through into the loop.
ReturnsAfterDone_NoReturn == FALSE

\* `return` after the terminal frames of the finish_reason path.
ReturnsAfterDone == TRUE

\* Handle completion.
HandleCompletion(s) ==
    IF s.finish_reason # NoFinish /\ ~s.has_sent_stop_reason
    THEN LET s1 == [s EXCEPT !.has_sent_stop_reason = TRUE]
             s2 == CloseTextAtFinish(CloseToolBlocks(s1))
             s3 == EmitAll(s2, <<MessageDelta(convert_stop_reason(s.finish_reason),
                                              s2.output_tokens),
                                 MessageStop, Done>>)
         IN [s3 EXCEPT !.returned = ReturnsAfterDone]
    ELSE s

\* finish_reason = getattr(choice, 'finish_reason', None)
ReadFinishReason(s, c) == [s EXCEPT !.finish_reason = c.finish_reason]

\* `except Exception as e: logger.error(...); continue`
SkipChunk(s) == [s EXCEPT !.log = Append(@, "Error processing chunk")]

\* Body of the inner try.  A chunk raises before any frame of it is
\* yielded: len(None) on choices, or str += non-str on the content; the
\* handler keeps what was assigned before the raise.
ProcessChunkBody(s, c) ==
    LET s0 == ExtractUsage(s, c)
    IN IF c.choices = "null" THEN SkipChunk(s0)
       ELSE IF c.choices = "empty" THEN s0
       ELSE IF c.content_type = "list" THEN SkipChunk(ReadFinishReason(s0, c))
       ELSE HandleCompletion(
                ProcessDeltaToolCalls(
                    ProcessDeltaContent(ReadFinishReason(s0, c), c), c))

\* Mutation: nothing is emitted when the generator runs dry.
EndWithoutFinish_Silent(s) == s

\* Handle case where we reach end without finish_reason.
EndWithoutFinish(s) ==
    IF ~s.has_sent_stop_reason
    THEN LET s1 == CloseToolBlocks(s)
             s2 == IF ~s1.text_block_closed THEN Emit(s1, BlockStop(0)) ELSE s1
         IN EmitAll(s2, <<MessageDelta("end_turn", s2.output_tokens),
                          MessageStop, Done>>)
    ELSE s

\* Mutation: the error message_delta reports the tokens counted so far.
SendErrorEvents_ReportsTokens(s) ==
    EmitAll([s EXCEPT !.log = Append(@, "Error in streaming")],
            <<MessageDelta("error", s.output_tokens), MessageStop, Done>>)

\* Outer `except Exception`: send error events.
SendErrorEvents(s) ==
    EmitAll([s EXCEPT !.log = Append(@, "Error in streaming")],
            <<MessageDelta("error", 0), MessageStop, Done>>)

Commit(s) ==
    /\ out' = s.out
    /\ tool_index' = s.tool_index
    /\ anthropic_tool_index' = s.anthropic_tool_index
    /\ accumulated_text' = s.accumulated_text
    /\ text_sent' = s.text_sent
    /\ text_block_closed' = s.text_block_closed
    /\ output_tokens' = s.output_tokens
    /\ has_sent_stop_reason' = s.has_sent_stop_reason
    /\ last_tool_index' = s.last_tool_index
    /\ finish_reason' = s.finish_reason
    /\ opened_by' = s.opened_by
    /\ log' = s.log

\* The stream read so far is (or is no longer) a prefix of S4Upstream.
FollowsScenario(c) ==
    IF scenario # None /\ scenario < Len(S4Upstream) /\ c = S4Upstream[scenario + 1]
    THEN scenario + 1
    ELSE None

\* One iteration of the loop on chunk c, in a stream of at most max chunks.
Iterate(c, max) ==
    /\ pc = "loop"
    /\ UNCHANGED clientVars
    /\ UNCHANGED http
    /\ upstream_text' = IF tool_index = None /\ c.choices = "one" /\ c.content_type = "str"
                        THEN upstream_text \o c.content
                        ELSE upstream_text
    /\ consumed < max
    /\ consumed' = consumed + 1
    /\ scenario' = FollowsScenario(c)
    /\ upstream_usage' = IF c.usage # None THEN c.usage ELSE upstream_usage
    /\ LET s == ProcessChunkBody(Locals, c)
       IN /\ Commit(s)
          /\ pc' = IF s.returned THEN "done" ELSE "loop"
    /\ UNCHANGED <<openai_response, response, request, litellm_request>>

\* The generator yields chunk c and the loop body runs on it.
ProcessChunk(c) == Iterate(c, MaxChunks)

\* The same step in a stream made of the scenario's chunks.
ProcessScenarioChunk(c) == Iterate(c, MaxScenarioChunks)

\* The generator is exhausted: the loop ends normally.
UpstreamExhausted ==
    /\ pc = "loop"
    /\ UNCHANGED clientVars
    /\ UNCHANGED <<http, upstream_text>>
    /\ pc' = "done"
    /\ Commit(EndWithoutFinish(Locals))
    /\ UNCHANGED <<consumed, scenario, upstream_usage, openai_response, response,
                   request, litellm_request>>

\* The generator raises at `async for`.
UpstreamRaises ==
    /\ pc = "loop"
    /\ UNCHANGED clientVars
    /\ UNCHANGED <<http, upstream_text>>
    /\ pc' = "done"
    /\ Commit(SendErrorEvents(Locals))
    /\ UNCHANGED <<consumed, scenario, upstream_usage, openai_response, response,
                   request, litellm_request>>

\* The chunk that include_usage makes the upstream send last: usage only,
\* no choices.
UsageChunks ==
    {[usage |-> u, choices |-> "empty", content_type |-> "none", content |-> <<>>,
      tool_calls |-> <<>>, finish_reason |-> NoFinish] : u \in UsageValues}

\* The handler returned on a finish_reason chunk while the generator still
\* held chunk c: the chunk is part of the upstream stream but is never read.
LeftUnread(c) ==
    /\ pc = "done"
    /\ UNCHANGED clientVars
    /\ UNCHANGED <<http, upstream_text>>
    /\ has_sent_stop_reason
    /\ c.usage # None
    /\ upstream_usage' = c.usage
    /\ UNCHANGED <<pc, out, consumed, tool_index, anthropic_tool_index,
                   accumulated_text, text_sent, text_block_closed, output_tokens,
                   has_sent_stop_reason, last_tool_index, finish_reason,
                   opened_by, log, scenario, openai_response, response,
                   request, litellm_request>>

\* A request with stream = false: the route converts the one upstream
\* completion and returns the response.
ConvertResponse(completion, model, preferred_provider) ==
    /\ pc = "init"
    /\ UNCHANGED clientVars
    /\ UNCHANGED <<http, upstream_text>>
    /\ pc' = "done"
    /\ request' = [NoRequest EXCEPT !.original_model = model,
                                    !.model = validate_model(model, preferred_provider)]
    /\ openai_response' = completion
    /\ response' = convert_openai_to_anthropic(completion, request')
    /\ log' = IF response'.failed THEN <<"Error converting response">> ELSE <<>>
    /\ UNCHANGED <<out, consumed, tool_index, anthropic_tool_index,
                   accumulated_text, text_sent, text_block_closed, output_tokens,
                   has_sent_stop_reason, last_tool_index, finish_reason,
                   opened_by, scenario, upstream_usage, litellm_request>>

Next ==
    \/ BeginStream
    \/ /\ pc = "init"
       /\ \E completion \in Completions, model \in ClientModels,
             preferred_provider \in Providers :
             ConvertResponse(completion, model, preferred_provider)
    \/ /\ pc = "loop"
       /\ \E c \in Chunks : ProcessChunk(c)
    \/ \E c \in UsageChunks : LeftUnread(c)
    \/ UpstreamExhausted
    \/ UpstreamRaises

Spec == Init /\ [][Next]_vars

\* The chunk shapes that decide whether the handler finishes: chunks that
\* raise, empty chunks, text, one tool-call delta, a finish_reason.
ProgressChunks ==
    {c \in Chunks : /\ c.usage = None
                    /\ c.finish_reason \in {NoFinish, "stop"}
                    /\ Len(c.tool_calls) <= 1}

ProgressCompletions ==
    {completion \in Completions : /\ completion.completion_tokens = 1
                                  /\ Len(completion.tool_calls) <= 1}

FairNext ==
    \/ BeginStream
    \/ /\ pc = "init"
       /\ \E completion \in ProgressCompletions, model \in ClientModels,
             preferred_provider \in Providers :
             ConvertResponse(completion, model, preferred_provider)
    \/ /\ pc = "loop"
       /\ \E c \in ProgressChunks : ProcessChunk(c)
    \/ UpstreamExhausted
    \/ UpstreamRaises

\* The upstream generator and the consumer keep going: some step is taken
\* as long as the handler has not finished.
FairSpec == Init /\ [][FairNext]_vars /\ WF_vars(FairNext)

\* --- the request translator
\* Configurations and headers a request arrives with: every combination
\* with the plain request, none with the others.
Arrivals(body, preferred_provider) ==
    IF body.max_tokens = 1 /\ body.system = NoSystem /\ body.tools = <<>>
    THEN {Http(preferred_provider, anthropic_api_key, provider_key, x_api_key,
               authorization) :
              anthropic_api_key \in {Null, Secret}, provider_key \in BOOLEAN,
              x_api_key \in ApiKeyHeaders, authorization \in AuthorizationHeaders}
    ELSE {Http(preferred_provider, Null, TRUE, Null, Null)}

\* config.get_api_key_for_provider(provider): the key of the anthropic
\* provider is ANTHROPIC_API_KEY itself.
get_api_key_for_provider(h) ==
    IF h.preferred_provider = "anthropic" THEN h.anthropic_api_key # Null
    ELSE h.provider_key

\* The route receives a request: pydantic builds and validates the object.
ReceiveRequest(body, preferred_provider) ==
    /\ pc = "init"
    /\ UNCHANGED clientVars
    /\ UNCHANGED upstream_text
    /\ pc' = "received"
    /\ request' = MessagesRequest(body, preferred_provider)
    /\ http' \in Arrivals(body, preferred_provider)
    /\ UNCHANGED <<litellm_request, out, consumed, tool_index, anthropic_tool_index,
                   accumulated_text, text_sent, text_block_closed, output_tokens,
                   has_sent_stop_reason, last_tool_index, finish_reason,
                   opened_by, log, scenario, upstream_usage, openai_response,
                   response>>

\* litellm_request = convert_anthropic_to_litellm(request)
TranslateRequest ==
    /\ pc = "received"
    /\ UNCHANGED clientVars
    /\ UNCHANGED <<http, upstream_text>>
    /\ pc' = "translated"
    /\ litellm_request' = convert_anthropic_to_litellm(request)
    /\ UNCHANGED <<request, out, consumed, tool_index, anthropic_tool_index,
                   accumulated_text, text_sent, text_block_closed, output_tokens,
                   has_sent_stop_reason, last_tool_index, finish_reason,
                   opened_by, log, scenario, upstream_usage, openai_response,
                   response>>

\* get_provider_api_key, then the call of the upstream: without a key for
\* the provider the route answers 400, else the request is forwarded.
ForwardRequest ==
    /\ pc = "translated"
    /\ UNCHANGED clientVars
    /\ UNCHANGED upstream_text
    /\ IF get_api_key_for_provider(http)
       THEN pc' = "forwarded" /\ UNCHANGED http
       ELSE pc' = "rejected" /\ http' = [http EXCEPT !.status = 400]
    /\ UNCHANGED <<request, litellm_request, out, consumed, tool_index,
                   anthropic_tool_index, accumulated_text, text_sent,
                   text_block_closed, output_tokens, has_sent_stop_reason,
                   last_tool_index, finish_reason, opened_by, log, scenario,
                   upstream_usage, openai_response, response>>

RequestNext ==
    \/ /\ pc = "init"
       /\ \E body \in ClientRequests, preferred_provider \in Providers :
             ReceiveRequest(body, preferred_provider)
    \/ TranslateRequest
    \/ ForwardRequest

RequestSpec == Init /\ [][RequestNext]_vars

\* Streams made of the chunks of the scenario, in any order and number.
ScenarioNext ==
    \/ BeginStream
    \/ \E c \in ScenarioChunks : ProcessScenarioChunk(c)
    \/ UpstreamExhausted
    \/ UpstreamRaises

ScenarioSpec == Init /\ [][ScenarioNext]_vars

\* --- the upstream client
\* `request_id in self.active_requests and self.active_requests[request_id].is_set()`
IsSet(id) == active_requests[id] # 0 /\ calls[active_requests[id]].cancel_event

\* `if request_id: self.active_requests[request_id] = cancel_event`
Register(k, id) ==
    IF id # NoRequestId THEN [active_requests EXCEPT ![id] = k] ELSE active_requests

\* The except clauses of both methods, in order: what the caller sees for
\* an exception raised inside the try block.  HTTPException and every
\* other exception that is not one of the upstream's fall to
\* `except Exception`; a CancelledError is a BaseException and passes through.
Except(exception) ==
    CASE exception = "AuthenticationError" -> "HTTP 401"
      [] exception = "RateLimitError" -> "HTTP 429"
      [] exception = "BadRequestError" -> "HTTP 400"
      [] exception = "APIError" -> "HTTP e.status_code"
      [] exception = "CancelledError" -> "CancelledError"
      [] OTHER -> "HTTP 500"

RegistryAfter_ExceptOnly(id, outcome) ==
    IF id # NoRequestId /\ outcome # "CancelledError"
    THEN [active_requests EXCEPT ![id] = 0]
    ELSE active_requests

\* The finally clause: whatever the outcome, the entry of request_id is
\* deleted if there is one.
RegistryAfter(id, outcome) ==
    IF id # NoRequestId THEN [active_requests EXCEPT ![id] = 0] ELSE active_requests

\* The call ends: return or raise, then finally.
Finish(k, outcome, aborted) ==
    /\ calls' = [calls EXCEPT ![k].pc = "finished", ![k].outcome = outcome,
                              ![k].aborted = aborted]
    /\ active_requests' = RegistryAfter(calls[k].request_id, outcome)

\* create_chat_completion up to its first await.
StartCompletion(k, id) ==
    /\ calls[k].pc = "idle"
    /\ calls' = [calls EXCEPT ![k] = [NoCall EXCEPT !.kind = "completion",
                                                   !.request_id = id,
                                                   !.pc = "waiting"]]
    /\ active_requests' = Register(k, id)
    /\ UNCHANGED <<translatorVars, classified, serviceVars>>

\* completion_task finishes with a completion or an exception.
UpstreamCompletes(k, result) ==
    /\ calls[k].kind = "completion"
    /\ calls[k].pc = "waiting"
    /\ calls[k].upstream = "pending"
    /\ calls' = [calls EXCEPT ![k].upstream = result]
    /\ UNCHANGED active_requests
    /\ UNCHANGED <<translatorVars, classified, serviceVars>>

\* cancel_request(id) finds the id and returns True (when it does not, it
\* returns False and nothing changes).
cancel_request(id) ==
    /\ active_requests[id] # 0
    /\ calls' = [calls EXCEPT ![active_requests[id]] =
                    [@ EXCEPT !.cancel_event = TRUE,
                              !.cancelled_at = IF @ = None
                                               THEN Len(calls[active_requests[id]].yielded)
                                               ELSE @]]
    /\ UNCHANGED active_requests
    /\ UNCHANGED <<translatorVars, classified, serviceVars>>

\* create_chat_completion resumes from asyncio.wait (or from awaiting the
\* completion task when it has no request_id) and runs to its end.
ResumeCompletion(k) ==
    /\ calls[k].kind = "completion"
    /\ calls[k].pc = "waiting"
    /\ \/ \* cancel_task in done
          /\ calls[k].request_id # NoRequestId
          /\ calls[k].cancel_event
          /\ Finish(k, Except("HTTPException 499"), calls[k].upstream = "pending")
       \/ \* cancel_task not in done
          /\ calls[k].upstream # "pending"
          /\ Finish(k, IF calls[k].upstream = "ok" THEN "returned"
                       ELSE Except(calls[k].upstream), FALSE)
    /\ UNCHANGED <<translatorVars, classified, serviceVars>>

\* The task running the call is cancelled, or the consumer closes the
\* generator: the exception raised at the await or the yield is not an
\* Exception, only finally runs.
TaskCancelled(k) ==
    /\ calls[k].pc \in {"waiting", "closing"}
    /\ Finish(k, Except("CancelledError"), calls[k].upstream = "pending")
    /\ UNCHANGED <<translatorVars, classified, serviceVars>>

\* create_chat_completion_stream from the first __anext__ to the await of
\* the upstream.
StartStream(k, id) ==
    /\ calls[k].pc = "idle"
    /\ calls' = [calls EXCEPT ![k] = [NoCall EXCEPT !.kind = "stream",
                                                   !.request_id = id,
                                                   !.pc = "waiting"]]
    /\ active_requests' = Register(k, id)
    /\ UNCHANGED <<translatorVars, classified, serviceVars>>

\* The upstream delivers a chunk: the cancellation check, then the yield.
StreamChunk(k) ==
    /\ calls[k].kind = "stream"
    /\ calls[k].pc = "waiting"
    /\ Len(calls[k].yielded) < MaxItems
    /\ IF calls[k].request_id # NoRequestId /\ IsSet(calls[k].request_id)
       THEN Finish(k, Except("HTTPException 499"), TRUE)
       ELSE /\ calls' = [calls EXCEPT ![k].yielded = Append(@, "data: chunk")]
            /\ UNCHANGED active_requests
    /\ UNCHANGED <<translatorVars, classified, serviceVars>>

\* The upstream is exhausted: the loop ends and the end marker is yielded.
StreamEnds(k) ==
    /\ calls[k].kind = "stream"
    /\ calls[k].pc = "waiting"
    /\ calls' = [calls EXCEPT ![k].yielded = Append(@, "data: [DONE]"),
                              ![k].upstream = "ok", ![k].pc = "closing"]
    /\ UNCHANGED active_requests
    /\ UNCHANGED <<translatorVars, classified, serviceVars>>

\* The consumer asks for the item after the end marker: the generator returns.
StreamReturns(k) ==
    /\ calls[k].kind = "stream"
    /\ calls[k].pc = "closing"
    /\ Finish(k, "returned", FALSE)
    /\ UNCHANGED <<translatorVars, classified, serviceVars>>

\* The upstream raises while the stream is opened or iterated.
StreamFails(k, error) ==
    /\ calls[k].kind = "stream"
    /\ calls[k].pc = "waiting"
    /\ Finish(k, Except(error), FALSE)
    /\ UNCHANGED <<translatorVars, classified, serviceVars>>

ClientNext ==
    \/ \E k \in Calls, id \in RequestIds \cup {NoRequestId} : StartCompletion(k, id)
    \/ \E k \in Calls, result \in {"ok"} \cup UpstreamErrors : UpstreamCompletes(k, result)
    \/ \E id \in RequestIds : cancel_request(id)
    \/ \E k \in Calls : ResumeCompletion(k)
    \/ \E k \in Calls : TaskCancelled(k)
    \/ \E k \in Calls, id \in RequestIds \cup {NoRequestId} : StartStream(k, id)
    \/ \E k \in Calls : StreamChunk(k)
    \/ \E k \in Calls : StreamEnds(k)
    \/ \E k \in Calls : StreamReturns(k)
    \/ \E k \in Calls, error \in UpstreamErrors : StreamFails(k, error)

ClientSpec == Init /\ [][ClientNext]_vars

\* --- the error classifier
\* An except clause of the client passes str(e) to the classifier.
ClassifyError(error_detail) ==
    /\ ~classified.done
    /\ classified' = [done |-> TRUE, error_detail |-> error_detail,
                      detail |-> classify_openai_error(error_detail)]
    /\ UNCHANGED <<translatorVars, active_requests, calls, serviceVars>>

ClassifierNext == \E error_detail \in ErrorMessages : ClassifyError(error_detail)

ClassifierSpec == Init /\ [][ClassifierNext]_vars

\* --- the services
otherVars == <<translatorVars, active_requests, calls, classified>>

\* A second passes.
Tick ==
    /\ now < MaxTime
    /\ now' = now + 1
    /\ UNCHANGED <<otherVars, breaker, executions, cache, last_get>>

\* --- circuit breaker
CreateBreaker(failure_threshold, recovery_timeout) ==
    /\ breaker.state = "none"
    /\ breaker' = CircuitBreaker(failure_threshold, recovery_timeout)
    /\ UNCHANGED <<otherVars, now, executions, cache, last_get>>

\* execute up to the await of the protected function, or to the fast fail.
Execute(k) ==
    /\ breaker.state # "none"
    /\ executions[k].pc = "idle"
    /\ breaker' = check_state_transition(breaker, now)
    /\ executions' =
           [executions EXCEPT ![k] =
               IF breaker'.state = OPEN
               THEN [pc |-> "idle", invoked_in |-> "", result |-> "circuit open"]
               ELSE [pc |-> "running", invoked_in |-> breaker'.state, result |-> ""]]
    /\ UNCHANGED <<otherVars, now, cache, last_get>>

\* The protected function returns.
FuncReturns(k) ==
    /\ executions[k].pc = "running"
    /\ breaker' = handle_success(breaker)
    /\ executions' = [executions EXCEPT ![k].pc = "idle", ![k].result = "ok"]
    /\ UNCHANGED <<otherVars, now, cache, last_get>>

\* The protected function raises.
FuncRaises(k) ==
    /\ executions[k].pc = "running"
    /\ breaker.failure_count < MaxFailures
    /\ breaker' = handle_failure(breaker, now)
    /\ executions' = [executions EXCEPT ![k].pc = "idle", ![k].result = "failed"]
    /\ UNCHANGED <<otherVars, now, cache, last_get>>

BreakerNext ==
    \/ Tick
    \/ \E failure_threshold \in FailureThresholds, recovery_timeout \in RecoveryTimeouts :
          CreateBreaker(failure_threshold, recovery_timeout)
    \/ \E k \in Executions : Execute(k)
    \/ \E k \in Executions : FuncReturns(k)
    \/ \E k \in Executions : FuncRaises(k)

BreakerSpec == Init /\ [][BreakerNext]_vars

\* --- response cache
CreateCache(ttl_seconds, max_size) ==
    /\ ~cache.created
    /\ cache' = ResponseCache(ttl_seconds, max_size)
    /\ UNCHANGED <<otherVars, now, breaker, executions, last_get>>

CacheGet(request_data) ==
    /\ cache.created
    /\ LET got == cache_get(cache, request_data, now)
       IN /\ cache' = got.cache
          /\ last_get' = [key |-> generate_key(request_data), result |-> got.result,
                          expired |-> got.expired]
    /\ UNCHANGED <<otherVars, now, breaker, executions>>

CacheSet(request_data, response_data) ==
    /\ cache.created
    /\ cache' = cache_set(cache, request_data, response_data, now)
    /\ UNCHANGED <<otherVars, now, breaker, executions, last_get>>

CacheClear ==
    /\ cache.created
    /\ cache' = [cache EXCEPT !.entries = <<>>]
    /\ UNCHANGED <<otherVars, now, breaker, executions, last_get>>

CacheNext ==
    \/ Tick
    \/ \E ttl_seconds \in TtlSeconds, max_size \in MaxSizes :
          CreateCache(ttl_seconds, max_size)
    \/ \E request_data \in CacheRequests : CacheGet(request_data)
    \/ \E request_data \in CacheRequests, response_data \in Responses :
          CacheSet(request_data, response_data)
    \/ CacheClear

CacheSpec == Init /\ [][CacheNext]_vars

\* ================================================================ claims
Positions(type) == {i \in DOMAIN out : out[i].type = type}

Starts(frames) == {i \in DOMAIN frames : frames[i].type = "content_block_start"}

Stops(frames) == {i \in DOMAIN frames : frames[i].type = "content_block_stop"}

Streaming == out # <<>>

LastFrame == out[Len(out)]

\* The three terminal frames are the last frames of the stream.
EndsWith(stop_reason, tokens) ==
    /\ Len(out) >= 3
    /\ out[Len(out) - 2] = MessageDelta(stop_reason, tokens)
    /\ out[Len(out) - 1] = MessageStop
    /\ out[Len(out)] = Done

\* Every started block has exactly one stop, emitted later, and every stop
\* belongs to a block started before it.
Balanced(frames) ==
    /\ \A i \in Starts(frames) :
          /\ Cardinality({j \in Stops(frames) : frames[j].index = frames[i].index}) = 1
          /\ \E j \in Stops(frames) : j > i /\ frames[j].index = frames[i].index
    /\ \A j \in Stops(frames) :
          \E i \in Starts(frames) : i < j /\ frames[i].index = frames[j].index

\* C1: at most one message_delta is emitted; message_stop comes only
\* directly after it, [DONE] only directly after message_stop, and [DONE]
\* is the last frame whatever the upstream still holds.
C1_TerminalUniqueness ==
    /\ Cardinality(Positions("message_delta")) <= 1
    /\ \A i \in Positions("message_stop") :
          i > 1 /\ out[i - 1].type = "message_delta"
    /\ \A i \in Positions("[DONE]") :
          i > 1 /\ out[i - 1].type = "message_stop" /\ i = Len(out)

\* A stream ended by a finish_reason chunk before the generator ran dry.
C1_Witness ==
    /\ pc = "done"
    /\ has_sent_stop_reason
    /\ consumed < MaxChunks
    /\ EndsWith("tool_use", output_tokens)

\* C2: a stream whose upstream ends in a finish_reason chunk (the handler
\* ends by return or by exhaustion, not by the error frames) is block
\* balanced: each content_block_start{i} has exactly one later
\* content_block_stop{i}, and there is no stop without a start.
C2_BlockBalanceOnFinish ==
    (pc = "done" /\ Streaming /\ out[Len(out) - 2].stop_reason # "error")
        => Balanced(out)

\* A finished stream with the text block and two tool blocks.
C2_Witness ==
    /\ pc = "done"
    /\ has_sent_stop_reason
    /\ last_tool_index = 2
    /\ Cardinality(Starts(out)) = 3
    /\ Cardinality(Stops(out)) = 3

\* C3: on every way a stream can end, every started block has exactly one
\* stop, and all stops come before the terminal message_delta.
C3_BlockBalanceAlways ==
    (pc = "done" /\ Streaming)
        => /\ Balanced(out)
           /\ \A j \in Stops(out) : \A k \in Positions("message_delta") : j < k

\* C4: content_block_start{0} directly follows message_start, is emitted
\* exactly once, and content_block_stop{0} precedes the first start of a
\* block with index >= 1.
C4_TextBlockFirst ==
    Streaming =>
        /\ out[1] = MessageStart
        /\ out[2] = TextBlockStart
        /\ Cardinality({i \in Starts(out) : out[i].index = 0}) = 1
        /\ \A i \in Starts(out) :
              out[i].index >= 1 =>
                  \E j \in Stops(out) : j < i /\ out[j].index = 0

\* A tool block was opened in a stream that never produced text.
C4_Witness ==
    /\ last_tool_index >= 1
    /\ ~text_sent
    /\ \E i \in Starts(out) : out[i].index = 1

\* C5: the mapping from upstream tool_call.index to block index is stable:
\* each upstream index opens exactly one tool_use block, so all deltas of
\* one upstream index land on one block, also when indexes interleave.
C5_StableToolMapping ==
    \A i, j \in DOMAIN opened_by : opened_by[i] = opened_by[j] => i = j

ToolStarts ==
    SelectSeq(out, LAMBDA f : f.type = "content_block_start" /\ f.block = "tool_use")

\* C6: the k-th tool_use block opened has index k, and last_tool_index is
\* the number of tool_use content_block_start frames emitted so far.
C6_ToolIndexes ==
    /\ \A k \in DOMAIN ToolStarts : ToolStarts[k].index = k
    /\ last_tool_index = Len(ToolStarts)

\* Three tool blocks were opened by upstream indexes arriving as 0, 1, 0
\* or 1, 0, 1.
C6_Witness ==
    /\ Len(ToolStarts) = 3
    /\ Len(opened_by) = 3
    /\ opened_by[1] = opened_by[3]

Logged(message) == \E i \in DOMAIN log : log[i] = message

\* C7 as claimed: whenever the upstream generator raised or the processing
\* of a chunk failed, the stream ends with message_delta{error, 0},
\* message_stop, [DONE].
C7_ErrorTerminalOnAnyFailure ==
    (pc = "done" /\ Streaming /\ log # <<>>) => EndsWith("error", 0)

\* C7 as amended: the stream ends with message_delta{error, 0},
\* message_stop, [DONE] exactly when the upstream generator raised; a chunk
\* whose processing fails is logged and skipped and does not put the error
\* frames on the stream.
C7_ErrorTerminalOnUpstreamRaise ==
    /\ Logged("Error in streaming") => pc = "done" /\ EndsWith("error", 0)
    /\ \A i \in Positions("message_delta") :
          out[i].stop_reason = "error" => Logged("Error in streaming")

\* The generator raised after a usage chunk and a skipped chunk.
C7_Witness ==
    /\ pc = "done"
    /\ Logged("Error in streaming")
    /\ Logged("Error processing chunk")
    /\ output_tokens > 0

\* C8: when the upstream and the consumer keep going, the handler finishes
\* and [DONE] is the last frame of the stream, also when chunks were
\* skipped because their processing raised.
C8_Termination ==
    <>[](pc = "done" /\ (Streaming => LastFrame = Done))

\* A stream that skipped a failing chunk and then ended on a finish_reason.
C8_Witness ==
    /\ pc = "done"
    /\ Logged("Error processing chunk")
    /\ has_sent_stop_reason
    /\ LastFrame = Done

\* Chunks that carry nothing but text.
TextOnlyChunks ==
    {c \in Chunks : /\ c.choices = "one"
                    /\ c.content_type = "str"
                    /\ c.content # <<>>
                    /\ c.tool_calls = <<>>
                    /\ c.finish_reason = NoFinish}

\* C9: after content_block_stop{0} no delta and no start of block 0 is
\* emitted, and a text chunk arriving after the first tool call emits no
\* frame at all.
C9_NoTextAfterClose ==
    /\ \A i \in Stops(out) :
          out[i].index = 0 =>
              \A j \in DOMAIN out :
                  j > i => ~(/\ out[j].index = 0
                             /\ out[j].type \in {"content_block_start",
                                                  "content_block_delta"})
    /\ (pc = "loop" /\ tool_index # None) =>
          \A c \in TextOnlyChunks : ProcessChunkBody(Locals, c).out = out

\* Text arrived after the tool call began: it is accumulated but no
\* text_delta was ever emitted.
C9_Witness ==
    /\ tool_index # None
    /\ text_block_closed
    /\ accumulated_text # <<>>
    /\ \A i \in DOMAIN out : out[i].block # "text_delta"

\* The stop_reason table of the data model.
StopReasonTable(reason) ==
    CASE reason = "stop" -> "end_turn"
      [] reason = "length" -> "max_tokens"
      [] reason = "tool_calls" -> "tool_use"
      [] OTHER -> "end_turn"

\* C10: both translators map finish_reason by the table (anything else,
\* null or absent, and exhaustion without finish_reason, give end_turn),
\* and no other stop_reason leaves a path that did not fail.
C10_StopReasonMapping ==
    /\ (pc = "done" /\ Streaming /\ ~Logged("Error in streaming")) =>
          /\ out[Len(out) - 2].type = "message_delta"
          /\ out[Len(out) - 2].stop_reason =
                 IF has_sent_stop_reason
                 THEN StopReasonTable(finish_reason)
                 ELSE "end_turn"
          /\ out[Len(out) - 2].stop_reason \in {"end_turn", "max_tokens", "tool_use"}
    /\ (pc = "done" /\ ~Streaming /\ ~response.failed) =>
          /\ response.stop_reason = StopReasonTable(openai_response.finish_reason)
          /\ response.stop_reason \in {"end_turn", "max_tokens", "tool_use"}

\* A completion cut off by the token limit was converted.
C10_Witness ==
    /\ pc = "done"
    /\ ~response.failed
    /\ response.stop_reason = "max_tokens"
    /\ response.content # <<>>
\* The frames the scenario expects, in order.
S4Expected ==
    << MessageStart, TextBlockStart, Ping,
       TextDelta(<<"Sure. ">>),
       BlockStop(0),
       ToolBlockStart(1, "t1", "calculator"),
       InputJsonDelta(1, <<"{\"expr">>),
       InputJsonDelta(1, <<"ession\":\"2+2\"}">>),
       BlockStop(1),
       MessageDelta("tool_use", 0),
       MessageStop, Done >>

\* C11: for the upstream stream of scenario S4 (text "Sure. ", the tool
\* call t1/calculator, two argument fragments, finish_reason tool_calls)
\* the handler emits exactly the twelve expected frames, and every prefix
\* of that upstream stream has produced a prefix of them.
C11_ScenarioS4 ==
    /\ scenario = Len(S4Upstream) => out = S4Expected
    /\ (scenario # None /\ pc = "loop") =>
          /\ Len(out) <= Len(S4Expected)
          /\ out = SubSeq(S4Expected, 1, Len(out))

\* The whole scenario stream was read and the handler returned.
C11_Witness ==
    /\ scenario = Len(S4Upstream)
    /\ pc = "done"
    /\ has_sent_stop_reason
    /\ Len(out) = 12
\* The terminal message_delta of a stream that ended without the error frames.
TerminalDelta == out[Len(out) - 2]

\* C12: in a stream that ends without failure, output_tokens of the
\* terminal message_delta is completion_tokens of the most recent
\* usage-carrying chunk of the upstream stream, wherever that chunk stands,
\* and is 0 only when no chunk of the upstream stream carried usage.
C12_TerminalUsage ==
    (pc = "done" /\ Streaming /\ ~Logged("Error in streaming")) =>
        /\ TerminalDelta.type = "message_delta"
        /\ TerminalDelta.output_tokens =
               IF upstream_usage = None THEN 0 ELSE upstream_usage
\* The request translator has run.
Translated == pc = "translated"

Min(a, b) == IF a < b THEN a ELSE b

\* C13: the forwarded max_tokens is the minimum of the request's
\* max_tokens and MAX_TOKENS_LIMIT, whatever the model or the provider.
C13_MaxTokensClamp ==
    Translated =>
        litellm_request.max_tokens = Min(request.max_tokens, MAX_TOKENS_LIMIT)

\* C14: a request with N >= 1 tools is forwarded with exactly N function
\* tools, in the same order, each with the inbound name, the inbound
\* input_schema as parameters, and the inbound description or "" when the
\* tool has none; the model plays no part.
C14_ToolPreservation ==
    (Translated /\ Len(request.tools) >= 1) =>
        /\ Len(litellm_request.tools) = Len(request.tools)
        /\ \A i \in DOMAIN request.tools :
              /\ litellm_request.tools[i].type = "function"
              /\ litellm_request.tools[i].name = request.tools[i].name
              /\ litellm_request.tools[i].parameters = request.tools[i].input_schema
              /\ litellm_request.tools[i].description =
                     IF request.tools[i].description = Null
                     THEN ""
                     ELSE request.tools[i].description

\* The tool_choice table of the request translator.
ToolChoiceTable(tool_choice, tools) ==
    LET type == IF tool_choice.present /\ "type" \in tool_choice.keys
                THEN tool_choice.type
                ELSE Null
    IN CASE type = "auto" -> Converted("str", "auto", "")
         [] type = "any" -> Converted("str", "any", "")
         [] type = "tool" /\ "name" \in tool_choice.keys ->
                Converted("function", "", tool_choice.name)
         [] OTHER -> IF tools # <<>> THEN Converted("str", "auto", "") ELSE Omitted

\* C15: tool_choice auto is forwarded as "auto", any as "any", {tool, name}
\* as the function choice of that name; any other or absent tool_choice is
\* forwarded as "auto" when the request has tools and omitted when it has
\* none.
C15_ToolChoiceMapping ==
    Translated =>
        litellm_request.tool_choice = ToolChoiceTable(request.tool_choice, request.tools)

\* seg occurs in text at position k.
OccursAt(seg, text, k) ==
    /\ k + Len(seg) - 1 <= Len(text)
    /\ SubSeq(text, k, k + Len(seg) - 1) = seg

\* The segments occur in text in order, without overlap.
OccurInOrder(segs, text) ==
    \E pos \in [DOMAIN segs -> 1..(Len(text) + 1)] :
        /\ \A i \in DOMAIN segs : OccursAt(segs[i], text, pos[i])
        /\ \A i \in DOMAIN segs :
              i > 1 => pos[i] >= pos[i - 1] + Len(segs[i - 1])

\* "Tool result for <tool_use_id>:" followed by the stringified content.
ResultSegment(block) ==
    <<"Tool result for ", block.tool_use_id, ":", "\n">>
    \o parse_tool_result_content(block.content)

\* The same, without the whitespace at the end of the content.
TrimmedResultSegment(block) == rstrip(ResultSegment(block))

AllToolResults(msg) ==
    /\ msg.kind = "blocks"
    /\ msg.blocks # <<>>
    /\ \A i \in DOMAIN msg.blocks : msg.blocks[i].type = "tool_result"

\* The forwarded message made from inbound message i.
Forwarded(i) ==
    litellm_request.messages[i + Len(litellm_request.messages) - Len(request.messages)]

\* Inbound user messages made of tool_result blocks only.
ToolResultMessages ==
    {i \in DOMAIN request.messages :
        request.messages[i].role = "user" /\ AllToolResults(request.messages[i])}

\* C16 as claimed: a user message whose blocks are all tool_result is
\* forwarded as one user message with a single string that contains, for
\* each block in order, "Tool result for <tool_use_id>:" followed by the
\* block's stringified content.
C16_ToolResultFlattening ==
    (Translated /\ Len(litellm_request.messages) >= Len(request.messages)) =>
        \A i \in ToolResultMessages :
            /\ Forwarded(i).role = "user"
            /\ Forwarded(i).kind = "str"
            /\ OccurInOrder([k \in DOMAIN request.messages[i].blocks |->
                                ResultSegment(request.messages[i].blocks[k])],
                            Forwarded(i).text)

\* C16 as amended: the string contains the segment of every block in order,
\* the segment of the last block without the whitespace at its end (the
\* flattened string is stripped), and no forwarded message made from such a
\* message keeps a block.
C16_ToolResultFlatteningStripped ==
    (Translated /\ Len(litellm_request.messages) >= Len(request.messages)) =>
        \A i \in ToolResultMessages :
            LET blocks == request.messages[i].blocks
            IN /\ Forwarded(i).role = "user"
               /\ Forwarded(i).kind = "str"
               /\ Forwarded(i).blocks = <<>>
               /\ OccurInOrder([k \in DOMAIN blocks |->
                                   IF k = Len(blocks)
                                   THEN TrimmedResultSegment(blocks[k])
                                   ELSE ResultSegment(blocks[k])],
                               Forwarded(i).text)
               /\ Forwarded(i).text # <<>>
               /\ Forwarded(i).text[Len(Forwarded(i).text)] \notin Whitespace

\* A user message with two tool results, the first a list, was flattened.
C16_Witness ==
    /\ Translated
    /\ \E i \in ToolResultMessages :
          /\ Len(request.messages[i].blocks) = 2
          /\ request.messages[i].blocks[1].content.kind = "list"
          /\ Forwarded(i).kind = "str"

\* The text a system prompt yields: the string, or the texts of the blocks
\* joined by blank lines and trimmed.
SystemYield(system) ==
    IF system.kind = "str" THEN system.text
    ELSE IF system.kind = "list" THEN strip(SystemTextOf(system.blocks))
    ELSE <<>>

\* C17: the forwarded list starts with one system message exactly when the
\* system prompt yields non-empty text, and then holds one message per
\* inbound message, in order, each with the inbound role.
C17_MessageList ==
    Translated =>
        LET yields == SystemYield(request.system) # <<>>
            offset == IF yields THEN 1 ELSE 0
        IN /\ Len(litellm_request.messages) = Len(request.messages) + offset
           /\ yields => litellm_request.messages[1].role = "system"
           /\ \A i \in DOMAIN request.messages :
                 litellm_request.messages[i + offset].role = request.messages[i].role
\* The non-streaming translator has returned.
Returned == pc = "done" /\ ~Streaming

\* The model name the client sent begins with claude- once a provider
\* prefix is taken off.
ClientSentClaude == startswith(clean_model(request.original_model), "claude-")

ToolUseBlocks == SelectSeq(response.content, LAMBDA b : b.type = "tool_use")

HasToolSummary ==
    \E i \in DOMAIN response.content :
        /\ response.content[i].type = "text"
        /\ contains(response.content[i].text, "Tool usage:")

\* C18: when the model name the client sent begins with claude-, every
\* upstream tool_call comes back as a tool_use block with the parsed
\* arguments, with stop_reason tool_use for finish_reason tool_calls; the
\* "Tool usage:" text summary appears only when the client's model is not
\* a claude- model.
C18_ClaudeToolUse ==
    (Returned /\ openai_response.tool_calls # <<>>) =>
        /\ ClientSentClaude =>
              /\ Len(ToolUseBlocks) = Len(openai_response.tool_calls)
              /\ \A i \in DOMAIN ToolUseBlocks :
                    ToolUseBlocks[i].input =
                        parse_arguments(openai_response.tool_calls[i].arguments)
              /\ openai_response.finish_reason = "tool_calls" =>
                    response.stop_reason = "tool_use"
        /\ HasToolSummary => ~ClientSentClaude

\* C19: the non-streaming translator always returns a response; when the
\* upstream response cannot be interpreted it logs an error and the
\* response starts with the text block "Error converting response", has
\* stop_reason end_turn and zero usage.
C19_DegradedResponse ==
    (Returned /\ openai_response.shape # "completion") =>
        /\ Logged("Error converting response")
        /\ response.content # <<>>
        /\ response.content[1].type = "text"
        /\ contains(response.content[1].text, "Error converting response")
        /\ response.stop_reason = "end_turn"
        /\ response.output_tokens = 0

\* C20: every response of the non-streaming translator has at least one
\* content block: for a completion with null or empty text and no
\* tool_calls, and for the degraded error response.
C20_AtLeastOneBlock ==
    Returned => Len(response.content) >= 1

\* A completion with null text and no tool calls was converted: the one
\* block is the empty text block.
C20_Witness ==
    /\ Returned
    /\ openai_response.shape = "completion"
    /\ openai_response.content_type = "none"
    /\ openai_response.tool_calls = <<>>
    /\ response.content = <<TextBlock(<<>>)>>
    /\ ~response.failed
\* C21: the model of the response is the model name as the client sent
\* it, not the rewritten upstream model name.
C21_ResponseModel ==
    Returned => response.model = request.original_model

Finished(k) == calls[k].pc = "finished"

\* C22: a non-streaming call whose cancellation fires before the upstream
\* completion finishes aborts the upstream task and fails with status 499.
C22_CancelledCompletion ==
    \A k \in Calls :
        (/\ calls[k].kind = "completion"
         /\ Finished(k)
         /\ calls[k].cancel_event
         /\ calls[k].upstream = "pending"
         /\ calls[k].outcome # "CancelledError")
        => calls[k].aborted /\ calls[k].outcome = "HTTP 499"

\* C23: once cancel_request has returned True for a streaming call in
\* flight, the call yields no further item and ends as cancelled.
C23_NothingAfterCancel ==
    \A k \in Calls :
        (calls[k].kind = "stream" /\ calls[k].cancelled_at # None)
        => /\ Len(calls[k].yielded) = calls[k].cancelled_at
           /\ Finished(k) => calls[k].outcome = "HTTP 499"

\* C24: when a call given a request_id finishes, by returning, raising or
\* being cancelled, the registry does not hold that request_id any more.
C24_RegistryCleanup ==
    [][\A k \in Calls :
          (~Finished(k) /\ calls'[k].pc = "finished"
           /\ calls[k].request_id # NoRequestId)
          => active_requests'[calls[k].request_id] = 0]_vars

C24_Witness ==
    \E k \in Calls :
        /\ Finished(k)
        /\ calls[k].request_id # NoRequestId
        /\ calls[k].outcome = "CancelledError"
        /\ \E j \in Calls : j # k /\ calls[j].request_id = calls[k].request_id
                              /\ calls[j].pc = "waiting"

\* C25: with ANTHROPIC_API_KEY configured, a request that presents it
\* neither as x-api-key nor as Authorization: Bearer is answered 401 and is
\* never translated or forwarded; without the secret every request is
\* admitted.
PresentsSecret ==
    \/ http.x_api_key = http.anthropic_api_key
    \/ http.authorization = "Bearer secret"

C25_SharedSecret ==
    /\ (http.anthropic_api_key # Null /\ ~PresentsSecret)
       => /\ pc \notin {"translated", "forwarded"}
          /\ pc = "rejected" => http.status = 401
    /\ http.anthropic_api_key = Null => http.status # 401

\* C26: for every provider the model name is rewritten by stripping a
\* leading anthropic/, mapping a name containing haiku (in any case) to
\* <provider>/<SMALL_MODEL>, else one containing sonnet to
\* <provider>/<BIG_MODEL>, else prefixing it with <provider>/ unless it
\* already has that prefix.
ProviderPrefix(provider) ==
    CASE provider = "nvidia" -> "nvidia_nim/"
      [] provider = "openai" -> "openai/"
      [] provider = "anthropic" -> "anthropic/"

RewrittenModel(v, provider) ==
    LET remainder == IF startswith(v, "anthropic/") THEN Tail(v) ELSE v
    IN IF contains(lower(remainder), "haiku")
       THEN <<ProviderPrefix(provider)>> \o SMALL_MODEL
       ELSE IF contains(lower(remainder), "sonnet")
       THEN <<ProviderPrefix(provider)>> \o BIG_MODEL
       ELSE IF startswith(remainder, ProviderPrefix(provider)) THEN remainder
       ELSE <<ProviderPrefix(provider)>> \o remainder

C26_ModelRewriting ==
    pc = "received"
    => request.model = RewrittenModel(request.original_model, http.preferred_provider)

\* The phrase groups of the classifier and the message of each.
Matches(group, error_str) ==
    CASE group = "forbidden_region" ->
             \/ contains(error_str, "unsupported_country_region_territory")
             \/ contains(error_str, "country, region, or territory not supported")
      [] group = "invalid_auth" ->
             contains(error_str, "invalid_api_key") \/ contains(error_str, "unauthorized")
      [] group = "rate_limited" ->
             contains(error_str, "rate_limit") \/ contains(error_str, "quota")
      [] group = "not_found_model" ->
             /\ contains(error_str, "model")
             /\ contains(error_str, "not found") \/ contains(error_str, "does not exist")
      [] group = "billing" ->
             contains(error_str, "billing") \/ contains(error_str, "payment")
      [] group = "context_length" ->
             \/ contains(error_str, "context_length_exceeded")
             \/ contains(error_str, "maximum context length")

GroupMessage(group) ==
    CASE group = "forbidden_region" -> <<"OpenAI API is not available in your region.">>
      [] group = "invalid_auth" -> <<"Invalid API key.">>
      [] group = "rate_limited" -> <<"Rate limit exceeded.">>
      [] group = "not_found_model" -> <<"Model not found.">>
      [] group = "billing" -> <<"Billing issue.">>
      [] group = "context_length" -> <<"Context length exceeded.">>

\* The message of the first group of order that matches, else the error
\* message itself.
RECURSIVE FirstMatch(_, _)
FirstMatch(order, error_detail) ==
    IF order = <<>> THEN error_detail
    ELSE IF Matches(Head(order), lower_message(error_detail))
    THEN GroupMessage(Head(order))
    ELSE FirstMatch(Tail(order), error_detail)

\* C27 as stated: the groups are tried in the order invalid_auth,
\* forbidden_region, not_found_model, rate_limited, billing, context_length;
\* the first that matches gives the result and an unmatched message is
\* returned unaltered.
C27_ClassifierOrder ==
    classified.done
    => classified.detail =
           FirstMatch(<<"invalid_auth", "forbidden_region", "not_found_model",
                        "rate_limited", "billing", "context_length">>,
                      classified.error_detail)

\* C27 as amended: the groups are tried in the order forbidden_region,
\* invalid_auth, rate_limited, not_found_model, billing, context_length.
C27_ClassifierOrderOfCode ==
    classified.done
    => classified.detail =
           FirstMatch(<<"forbidden_region", "invalid_auth", "rate_limited",
                        "not_found_model", "billing", "context_length">>,
                      classified.error_detail)

C27_Witness ==
    /\ classified.done
    /\ contains(classified.error_detail, "Unauthorized")
    /\ contains(classified.error_detail, "unsupported_country_region_territory")
    /\ classified.detail = <<"OpenAI API is not available in your region.">>

\* Chunks that carry one arguments fragment of one tool call and nothing else.
FragmentChunks ==
    {c \in Chunks : /\ c.usage = None
                    /\ c.choices = "one"
                    /\ c.content_type = "none"
                    /\ c.finish_reason = NoFinish
                    /\ Len(c.tool_calls) = 1
                    /\ c.tool_calls[1].arguments # <<>>}

\* The block of the tool call with upstream index u: the block opened for
\* it, or the next block when none was opened yet.
BlockOf(u) ==
    IF \E k \in DOMAIN opened_by : opened_by[k] = u
    THEN CHOOSE k \in DOMAIN opened_by :
             opened_by[k] = u /\ \A j \in 1..(k - 1) : opened_by[j] # u
    ELSE Len(opened_by) + 1

\* The input_json_delta frames that processing chunk c adds to the output.
FragmentFrames(c) ==
    LET s == ProcessChunkBody(Locals, c)
    IN SelectSeq(SubSeq(s.out, Len(out) + 1, Len(s.out)),
                 LAMBDA f : f.block = "input_json_delta")

\* C28: every non-empty arguments fragment of a streamed tool call is
\* emitted exactly once and verbatim as an input_json_delta on the block
\* of the tool call it belongs to, so that the fragments of one tool call
\* all land, in arrival order, on one block.
C28_FragmentsVerbatim ==
    pc = "loop" =>
        \A c \in FragmentChunks :
            FragmentFrames(c) =
                <<InputJsonDelta(BlockOf(c.tool_calls[1].index),
                                 c.tool_calls[1].arguments)>>

\* C29: for a Claude target every upstream tool_call yields exactly one
\* tool_use block, in tool_call order and after the text block, whatever
\* its arguments string: arguments that parse as JSON become the input,
\* arguments that do not parse become {raw}; no arguments string turns the
\* response into the degraded error response.
C29_ToolUsePerCall ==
    (/\ Returned
     /\ openai_response.shape = "completion"
     /\ IsClaudeModel(request)
     /\ openai_response.tool_calls # <<>>)
    => LET n == Len(openai_response.tool_calls)
           first == Len(response.content) - n
       IN /\ ~response.failed
          /\ Len(ToolUseBlocks) = n
          /\ first >= 0
          /\ \A i \in 1..n :
                response.content[first + i] =
                    ToolUseBlock(IF openai_response.tool_calls[i].arguments = "invalid"
                                 THEN "raw"
                                 ELSE openai_response.tool_calls[i].arguments)

\* The content_block_stop frames that a terminal step ending in state s
\* adds to the output.
TerminalStops(s) ==
    SelectSeq(SubSeq(s.out, Len(out) + 1, Len(s.out)),
              LAMBDA f : f.type = "content_block_stop")

ToolStops == [i \in 1..last_tool_index |-> BlockStop(i)]

\* C30: in every reachable state of the streaming translator tool_index
\* being set implies text_block_closed; so the terminal step, on a
\* finish_reason or at the end of the stream, emits either the stops of the
\* tool blocks 1..last_tool_index or the stop of block 0, never both and
\* never neither.
C30_ToolImpliesTextClosed ==
    /\ tool_index # None => text_block_closed
    /\ pc = "loop" =>
          \A s \in {EndWithoutFinish(Locals),
                    HandleCompletion([Locals EXCEPT !.finish_reason = "stop"])} :
              \/ tool_index # None /\ last_tool_index >= 1 /\ TerminalStops(s) = ToolStops
              \/ tool_index = None /\ TerminalStops(s) = <<BlockStop(0)>>

\* A stream that opened two tool blocks without any text has ended.
C30_Witness ==
    /\ pc = "done"
    /\ has_sent_stop_reason
    /\ tool_index # None
    /\ last_tool_index = 2
    /\ ~text_sent
    /\ EndsWith("end_turn", 0)
    /\ out[Len(out) - 4] = BlockStop(1)
    /\ out[Len(out) - 3] = BlockStop(2)

\* The texts of the text_delta frames of block 0, concatenated.
RECURSIVE EmittedText(_)
EmittedText(frames) ==
    IF frames = <<>> THEN <<>>
    ELSE (IF Head(frames).block = "text_delta" /\ Head(frames).index = 0
          THEN Head(frames).text ELSE <<>>) \o EmittedText(Tail(frames))

\* C31: no upstream text is emitted twice: the text_delta texts of block 0,
\* concatenated, are the non-empty content of the chunks received up to and
\* including the chunk with the first tool call, and the flush of the
\* accumulated text on closing the text block re-sends nothing.
C31_NoTextTwice ==
    Streaming => EmittedText(out) = upstream_text

\* A stream of two text chunks ended on a finish_reason with the text
\* block still open: the path on which the flush is considered.
C31_Witness ==
    /\ pc = "done"
    /\ has_sent_stop_reason
    /\ tool_index = None
    /\ text_sent
    /\ upstream_text = <<"a", "a">>
    /\ accumulated_text = upstream_text

InFlight(k) == calls[k].pc \in {"waiting", "closing"}

\* C32: of two calls in flight together, also with one request_id, each
\* stays cancellable through cancel_request until it finishes itself:
\* the registry holds, under the call's request_id, the cancellation event
\* of that very call, whatever the other call does.
C32_IndependentCalls ==
    \A k \in Calls :
        (InFlight(k) /\ calls[k].request_id # NoRequestId)
        => active_requests[calls[k].request_id] = k

\* Call k of execute ends in this step with the given result.
Ends(k, result) ==
    /\ executions[k].pc = "running"
    /\ executions'[k].pc = "idle"
    /\ executions'[k].result = result

\* Seconds since the last recorded failure.
Elapsed == now - breaker.last_failure_time

\* C33: a CLOSED breaker moves to OPEN exactly when a failed call brings
\* failure_count to failure_threshold, failure_count being the number of
\* failed calls since the breaker was created or last recovered; a
\* successful call in CLOSED changes neither failure_count nor state.
C33_OpensAtThreshold ==
    [][/\ breaker'.failure_count = breaker'.failed_calls
       /\ breaker.state = CLOSED =>
             /\ breaker'.state = OPEN <=>
                   /\ breaker'.failure_count = breaker.failure_count + 1
                   /\ breaker'.failure_count = breaker.failure_threshold
             /\ \A k \in Executions :
                   Ends(k, "failed") =>
                       breaker'.failure_count = breaker.failure_count + 1
             /\ \A k \in Executions : Ends(k, "ok") => breaker' = breaker]_vars

\* The second failure opened a breaker built with failure_threshold 2,
\* after a success in between.
C33_Witness ==
    /\ breaker.state = OPEN
    /\ breaker.failure_threshold = 2
    /\ breaker.failure_count = 2
    /\ \E k \in Executions : executions[k].result = "failed"
    /\ \E k \in Executions : executions[k].result = "ok"

\* C34: while the breaker is OPEN and no more than recovery_timeout has
\* elapsed since the last failure, execute fails with the circuit open
\* error without invoking the function and changes nothing of the breaker.
C34_FastFail ==
    [][(breaker.state = OPEN /\ Elapsed <= breaker.recovery_timeout /\ now' = now) =>
          /\ \A k \in Executions :
                executions[k].pc = "idle" =>
                    /\ executions'[k].pc = "idle"
                    /\ executions'[k].result \in {executions[k].result, "circuit open"}
          /\ (\A k \in Executions : executions'[k].pc = executions[k].pc) =>
                breaker' = breaker]_vars

\* A call was refused exactly recovery_timeout after the last failure.
C34_Witness ==
    /\ breaker.state = OPEN
    /\ breaker.recovery_timeout = 1
    /\ Elapsed = 1
    /\ \E k \in Executions : executions[k].result = "circuit open"

\* C35: the only way out of OPEN is HALF_OPEN: the first execute after
\* recovery_timeout has elapsed moves the breaker to HALF_OPEN and invokes
\* the function; in HALF_OPEN a success closes the breaker and resets
\* failure_count, a failure reopens it and restarts the recovery timer.
C35_RecoveryThroughHalfOpen ==
    [][/\ breaker.state = OPEN =>
             /\ breaker'.state \in {OPEN, HALF_OPEN}
             /\ breaker'.state = HALF_OPEN =>
                   /\ Elapsed > breaker.recovery_timeout
                   /\ \E k \in Executions : /\ executions[k].pc = "idle"
                                            /\ executions'[k].pc = "running"
             /\ (/\ Elapsed > breaker.recovery_timeout
                 /\ \E k \in Executions : /\ executions[k].pc = "idle"
                                          /\ executions'[k] # executions[k]) =>
                   breaker'.state = HALF_OPEN
       /\ breaker.state = HALF_OPEN =>
             /\ \A k \in Executions :
                   Ends(k, "ok") =>
                       breaker'.state = CLOSED /\ breaker'.failure_count = 0
             /\ \A k \in Executions :
                   Ends(k, "failed") =>
                       breaker'.state = OPEN /\ breaker'.last_failure_time = now]_vars

\* The breaker has recovered: the trial call admitted in HALF_OPEN succeeded.
C35_Witness ==
    /\ breaker.state = CLOSED
    /\ breaker.failure_count = 0
    /\ breaker.last_failure_time > 0
    /\ \E k \in Executions : /\ executions[k].invoked_in = HALF_OPEN
                             /\ executions[k].result = "ok"

\* C36: with failure_threshold >= 1 and calls that start in one state and
\* finish in another, a CLOSED breaker always has failure_count below
\* failure_threshold.
C36_ClosedBelowThreshold ==
    breaker.state = CLOSED => breaker.failure_count < breaker.failure_threshold

\* A call admitted in HALF_OPEN failed after the breaker had closed again.
C36_Witness ==
    /\ breaker.state = CLOSED
    /\ breaker.failure_threshold = 2
    /\ breaker.failure_count = 1
    /\ \E k \in Executions : /\ executions[k].invoked_in = HALF_OPEN
                             /\ executions[k].result = "failed"

\* C37: while the breaker is HALF_OPEN at most one trial call is in flight.
C37_OneTrial ==
    breaker.state = HALF_OPEN =>
        Cardinality({k \in Executions : /\ executions[k].pc = "running"
                                        /\ executions[k].invoked_in = HALF_OPEN}) <= 1

\* The entry cached under key, in a dict given in iteration order.
Cached(entries, key) == entries[IndexOf(entries, key)]

Has(entries, key) == IndexOf(entries, key) # 0

\* C38: get returns a response only if set stored it under the same key
\* less than ttl_seconds ago; an entry whose age has reached ttl_seconds is
\* never returned: the get that finds it deletes it and returns None.
C38_FreshEntriesOnly ==
    cache.created =>
        /\ \A request_data \in CacheRequests :
              LET key == generate_key(request_data)
                  got == cache_get(cache, request_data, now)
              IN /\ got.result # Null =>
                        /\ Has(cache.entries, key)
                        /\ Cached(cache.entries, key).response = got.result
                        /\ now - Cached(cache.entries, key).timestamp < cache.ttl_seconds
                 /\ (/\ Has(cache.entries, key)
                     /\ now - Cached(cache.entries, key).timestamp >= cache.ttl_seconds) =>
                        got.result = Null /\ ~Has(got.cache.entries, key)
        /\ \A request_data \in CacheRequests, response_data \in Responses :
              LET key == generate_key(request_data)
                  stored == cache_set(cache, request_data, response_data, now).entries
              IN /\ Has(stored, key)
                 /\ Cached(stored, key).response = response_data
                 /\ Cached(stored, key).timestamp = now
        /\ \A i, j \in DOMAIN cache.entries :
              cache.entries[i].key = cache.entries[j].key => i = j
        /\ last_get.expired => last_get.result = Null

\* A get found an entry that had just reached its time to live, deleted it
\* and returned None.
C38_Witness ==
    /\ last_get.expired
    /\ last_get.result = Null
    /\ ~Has(cache.entries, last_get.key)
    /\ cache.ttl_seconds = 2
    /\ now = 2

\* C39: for max_size >= 1 the cache holds at most max_size entries after
\* any sequence of set, get and clear.
C39_SizeBound ==
    cache.created => Len(cache.entries) <= cache.max_size

\* A full cache of two entries after a set that evicted the oldest entry.
C39_Witness ==
    /\ cache.evicted
    /\ cache.max_size = 2
    /\ Len(cache.entries) = 2

\* C40: set for a key already cached replaces only the entry of that key
\* and removes no entry of another key; the oldest entry is evicted only
\* when a new key is inserted into a cache holding max_size entries.
C40_SetReplacesOnlyItsKey ==
    cache.created =>
        \A request_data \in CacheRequests, response_data \in Responses :
            LET key == generate_key(request_data)
                stored == cache_set(cache, request_data, response_data, now).entries
            IN Has(cache.entries, key) =>
                   \A i \in DOMAIN cache.entries :
                       cache.entries[i].key # key =>
                           /\ Has(stored, cache.entries[i].key)
                           /\ Cached(stored, cache.entries[i].key) = cache.entries[i]
====
